---- MODULE Spec2Model ----
(***************************************************************************)
(* Model of the persisted cron scheduler of something_bg                   *)
(* (core/src/scheduler.rs) together with the start-up sequence of the      *)
(* platform shells (app-macos/src/app.rs, app-windows/src/app.rs).         *)
(*                                                                         *)
(* Time is an integer number of clock units.  An absent Option<DateTime>   *)
(* is None.  The UI thread ("ui") issues the scheduler API calls one at a  *)
(* time; every poll-loop thread spawned by start() has its own record in   *)
(* poll.  The task-map mutex is the variable lock.                         *)
(***************************************************************************)
EXTENDS Integers, FiniteSets, Sequences, TLC

\* ------------------------------------------------------------------ bounds
\* the wall clock when the process starts
StartTime == 1
\* how many clock units the run lasts
MaxTicks == 1
\* how far ahead the cron evaluator searches before it gives up
SearchLimit == 2

MaxTime == StartTime + MaxTicks
\* an instant before the process started
Past == StartTime - 1
\* the single instant matched by the one-shot cron expression "once"
OnceAt == StartTime + 1

Keys == {"a", "b"}
\* the keys the state file of an earlier run may hold
PersistedKeys == {"a"}
\* thread identities; Free is the owner of an unlocked mutex
Ui == "ui"
Free == "free"
PollerIds == {"poll1"}
\* Option::None of last_run / next_run
None == -1

\* ------------------------------------------------- cron evaluator (croner)
\* Cron::from_str: does the expression parse
CronParses(expr) == expr # "bad"

\* does the pattern match instant t
CronMatches(expr, t) ==
    CASE expr = "every" -> TRUE
      [] expr = "once" -> t = OnceAt
      [] OTHER -> FALSE

\* Cron::find_next_occurrence(from, inclusive): the earliest matching instant
\* at or after from (strictly after when inclusive is FALSE) within the
\* search horizon; None stands for Err(TimeSearchLimitExceeded)
find_next_occurrence(expr, from, inclusive) ==
    LET lo == IF inclusive THEN from ELSE from + 1
        hits == {t \in lo..(lo + SearchLimit) : CronMatches(expr, t)}
    IN IF hits = {} THEN None
       ELSE CHOOSE t \in hits : \A u \in hits : t <= u

\* ------------------------------------------------------------ commands
\* the (cron_schedule, command) pairs of the configured schedules
TaskConfigs == {<<"every", "ok">>, <<"every", "missing">>, <<"once", "ok">>,
                <<"bad", "ok">>}

\* Command::spawn() result: Ok exactly when the binary can be started
SpawnOk(command) == command = "ok"

\* ------------------------------------------------------- ScheduledTask
calculate_next_run_inclusive(expr, from_time) ==
    find_next_occurrence(expr, from_time, TRUE)

calculate_next_run(expr, from_time) ==
    find_next_occurrence(expr, from_time, FALSE)

NewTask_recomputes(cron, command, statemap, key, now) ==
    [ cron     |-> cron,
      command  |-> command,
      last_run |-> IF key \in DOMAIN statemap
                   THEN statemap[key].last_run ELSE None,
      next_run |-> calculate_next_run(cron, now) ]

\* ScheduledTask::new for a parsable expression; the persisted TaskState of
\* the key, when there is one, is statemap[key]
NewTask(cron, command, statemap, key, now) ==
    [ cron     |-> cron,
      command  |-> command,
      last_run |-> IF key \in DOMAIN statemap
                   THEN statemap[key].last_run ELSE None,
      next_run |-> IF key \in DOMAIN statemap /\ statemap[key].next_run # None
                   THEN statemap[key].next_run
                   ELSE calculate_next_run(cron, now) ]

should_run_absent_is_due(task, now) == now >= task.next_run

should_run_strictly_after(task, now) ==
    IF task.next_run # None THEN now > task.next_run ELSE FALSE

\* ScheduledTask::should_run
should_run(task, now) ==
    IF task.next_run # None THEN now >= task.next_run ELSE FALSE

update_next_run_skipped(task, now) == task

update_next_run_inclusive(task, now) ==
    [task EXCEPT !.last_run = now,
                 !.next_run = find_next_occurrence(task.cron, now, TRUE)]

update_next_run_keeps_due(task, now) == [task EXCEPT !.last_run = now]

update_next_run_from_start(task, now) ==
    [task EXCEPT !.last_run = now,
                 !.next_run = find_next_occurrence(task.cron, Past, FALSE)]

update_next_run(task, now) ==
    [task EXCEPT !.last_run = now,
                 !.next_run = find_next_occurrence(task.cron, now, FALSE)]

execute_always_updates(task, now) ==
    [ok |-> SpawnOk(task.command), task |-> update_next_run(task, now)]

\* ScheduledTask::execute: spawn, and advance the task only on Ok
execute(task, now) ==
    IF SpawnOk(task.command)
    THEN [ok |-> TRUE, task |-> update_next_run(task, now)]
    ELSE [ok |-> FALSE, task |-> task]

IsMissed_overdue_only(task, now) ==
    task.next_run # None /\ now >= task.next_run

\* the "missed" test of check_and_run_missed_tasks
IsMissed(task, now) ==
    IF task.next_run # None
    THEN LET is_overdue == now >= task.next_run
             was_not_run_yet == task.last_run = None
                                \/ task.last_run < task.next_run
         IN is_overdue /\ was_not_run_yet
    ELSE FALSE

\* -------------------------------------------------------- state store
Snapshot_one_entry(taskmap) ==
    [k \in {j \in DOMAIN taskmap : \A i \in DOMAIN taskmap : j = i} |->
        [last_run |-> taskmap[k].last_run, next_run |-> taskmap[k].next_run]]

\* TaskState records of a task map (save_states / the poll loop's snapshot)
Snapshot(taskmap) ==
    [k \in DOMAIN taskmap |->
        [last_run |-> taskmap[k].last_run, next_run |-> taskmap[k].next_run]]

\* toml::to_string_pretty: one table per key holding only the present fields
Serialize(statemap) ==
    [k \in DOMAIN statemap |->
        {<<"last_run", statemap[k].last_run>> : x \in
              IF statemap[k].last_run = None THEN {} ELSE {1}}
        \cup
        {<<"next_run", statemap[k].next_run>> : x \in
              IF statemap[k].next_run = None THEN {} ELSE {1}}]

FieldOf(table, name) ==
    IF \E e \in table : e[1] = name
    THEN (CHOOSE e \in table : e[1] = name)[2]
    ELSE None

Parse_drops_last_run(text) ==
    [k \in DOMAIN text |->
        [last_run |-> None,
         next_run |-> FieldOf(text[k], "next_run")]]

\* toml::from_str: a field missing from a table is read as None
Parse(text) ==
    [k \in DOMAIN text |->
        [last_run |-> FieldOf(text[k], "last_run"),
         next_run |-> FieldOf(text[k], "next_run")]]

EmptyMap == << >>
NoFile ==
    [exists |-> FALSE, readable |-> FALSE, parses |-> FALSE, text |-> EmptyMap]

load_task_states_trusts_file(f) ==
    IF ~f.exists THEN EmptyMap ELSE Parse(f.text)

load_task_states(f) ==
    IF ~f.exists THEN EmptyMap
    ELSE IF ~f.readable THEN EmptyMap
    ELSE IF f.parses THEN Parse(f.text) ELSE EmptyMap

\* ----------------------------------------------------------- variables
VARIABLES
    clock,      \* Local::now()
    tasks,      \* TaskScheduler.tasks : key -> ScheduledTask
    states,     \* TaskScheduler.states : key -> TaskState
    file,       \* the state file on disk
    running,    \* TaskScheduler.running
    lock,       \* owner of the tasks mutex: Free, Ui or a poller id
    phase,      \* position of the shell in App::new, then "ready"
    ui,         \* the UI thread's current scheduler call
    poll,       \* the poll-loop threads
    lastDue,    \* history: the due time of key's last run on the poll/missed path
    ranTwice,   \* history: <<key, due>> run more than once on the poll/missed path
    missedRanNow, \* history: keys the missed path ran at the present instant
    executedOk, \* history: keys run successfully since they were added
    lastSnap,   \* history: the snapshot most recently taken for a save
    commands,   \* keys of TunnelManager.commands_config
    poisoned,   \* the commands_config mutex is poisoned by a panic
    active,     \* TunnelManager.active_tunnels
    sup,        \* supervisor threads spawned by toggle(key, true)
    tui,        \* the UI thread inside a TunnelManager call
    sig,        \* the interrupt handler thread of the Linux shell
    stopRuns,   \* history: stop commands run per key by the present call
    mutex,      \* holder of the commands_config and active_tunnels mutexes
    appRunning, \* the Linux shell's `running` flag (AtomicBool)
    loop,       \* position of the main thread in EventLoop::run
    environ,    \* the PATH variable of the process environment
    configFile, \* what loading the configuration file yields
    childPath,  \* the PATH given to the start command last spawned
    setBack     \* history: the wall clock has been set back

schedvars == <<clock, tasks, states, file, running, lock, phase, ui, poll,
               lastDue, ranTwice, missedRanNow, executedOk, lastSnap>>

envvars == <<environ, configFile, childPath, setBack>>

appvars == <<appRunning, loop, envvars>>

tunvars == <<commands, poisoned, active, sup, tui, sig, stopRuns, mutex,
             appRunning, loop, environ, configFile, childPath, setBack>>

vars == <<clock, tasks, states, file, running, lock, phase, ui, poll,
          lastDue, ranTwice, missedRanNow, executedOk, lastSnap,
          commands, poisoned, active, sup, tui, sig, stopRuns, mutex,
          appRunning, loop, environ, configFile, childPath, setBack>>

hist == <<lastDue, ranTwice, missedRanNow, executedOk, lastSnap>>

\* ---------------------------------------------------------------- Init
\* a run that was missed and never made, a run recorded at or after its due
\* time, and a last run with no next run
PersistedRecords ==
    { [last_run |-> None, next_run |-> Past],
      [last_run |-> StartTime, next_run |-> Past],
      [last_run |-> Past, next_run |-> None] }
InitialStateMaps ==
    UNION {[S -> PersistedRecords] : S \in (SUBSET PersistedKeys) \ {{}}}
\* what the state file can hold when the process starts: nothing, text that
\* does not parse, or a map written by an earlier run or by hand
InitialFiles ==
    {NoFile, [exists |-> TRUE, readable |-> TRUE, parses |-> FALSE,
              text |-> EmptyMap]}
    \cup {[exists |-> TRUE, readable |-> TRUE, parses |-> TRUE,
            text |-> Serialize(m)] :
             m \in InitialStateMaps}

UiIdle ==
    [pc |-> "idle", op |-> "none", key |-> "", now |-> None, todo |-> {},
     any |-> FALSE, snap |-> EmptyMap, res |-> "none"]

\* the UI thread is back from a call that returned a Result
UiReturn(res) == [UiIdle EXCEPT !.res = res]

PollNone ==
    [pc |-> "none", key |-> "", now |-> None, todo |-> {},
     changed |-> FALSE, snap |-> EmptyMap]

\* the retry cap of a supervisor thread
MaxAttempts == 5
TunnelKeys == {"t1", "t2"}
SupIds == {"s1", "s2"}

Mutexes == {"commands_config", "active_tunnels"}

SupNone ==
    [pc |-> "none", key |-> "", attempts |-> 0, spawns |-> 0, late |-> 0]

\* the UI thread is outside every TunnelManager call
TuiIdle ==
    [pc |-> "idle", op |-> "none", key |-> "", ret |-> "none",
     was |-> FALSE, after |-> {}, killed |-> "none"]

\* the shell builds the TunnelManager from the configured tunnels: the
\* registry reg, nothing active, no supervisor thread
TunnelManagerNew(reg) ==
    /\ commands = reg
    /\ poisoned = FALSE
    /\ active = {}
    /\ sup = [s \in SupIds |-> SupNone]
    /\ tui = TuiIdle
    /\ sig = "idle"
    /\ stopRuns = [k \in TunnelKeys |-> 0]
    /\ mutex = [m \in Mutexes |-> Free]

\* the shell's main thread before EventLoop::run: the running flag is set
EventLoopNew ==
    /\ appRunning = TRUE
    /\ loop = "test"

\* an Option: a PATH is a sequence of directories, "a:b" is <<"a", "b">>
Absent == [some |-> FALSE, val |-> <<>>]
Present(v) == [some |-> TRUE, val |-> v]

\* a configuration without a path entry, an environment without PATH, no
\* start command spawned yet
EnvironNew ==
    /\ environ = Absent
    /\ configFile = [ok |-> TRUE, path |-> Absent]
    /\ childPath = Absent
    /\ setBack = FALSE

\* TaskScheduler::new: empty task map, states loaded from the state file
Init ==
    /\ TunnelManagerNew(TunnelKeys)
    /\ EventLoopNew
    /\ EnvironNew
    /\ clock = StartTime
    /\ tasks = EmptyMap
    /\ file \in InitialFiles
    /\ states = load_task_states(file)
    /\ running = FALSE
    /\ lock = Free
    /\ phase = "setup"
    /\ ui = UiIdle
    /\ poll = [p \in PollerIds |-> PollNone]
    /\ lastDue = [k \in Keys |-> None]
    /\ ranTwice = {}
    /\ missedRanNow = {}
    /\ executedOk = {}
    /\ lastSnap = states

\* the wall clock advances (monotonic); the shell adds the configured
\* schedules at the instant the process starts
Tick ==
    /\ UNCHANGED tunvars
    /\ clock < MaxTime /\ phase # "setup"
    /\ clock' = clock + 1
    /\ missedRanNow' = {}
    /\ UNCHANGED <<tasks, states, file, running, lock, phase, ui, poll,
                   lastDue, ranTwice, executedOk, lastSnap>>

\* ---------------------------------------------------- shared pieces
Insert_drops_others(map, key, val) == [k \in {key} |-> val]

\* HashMap::insert: the value of key is val, whether or not key was there
Insert(map, key, val) ==
    [k \in DOMAIN map \cup {key} |-> IF k = key THEN val ELSE map[k]]

LockFree_ignored(owner) == TRUE

\* Mutex::lock() on the task map returns only when nobody holds it
LockFree(owner) == owner = Free

\* history of one execute() call on key at the present instant
Record(path, key, r) ==
    LET due == tasks[key].next_run
        counted == r.ok /\ path # "manual"
    IN /\ executedOk' = IF r.ok THEN executedOk \cup {key} ELSE executedOk
       /\ lastDue' = IF counted THEN [lastDue EXCEPT ![key] = due] ELSE lastDue
       /\ ranTwice' = IF counted /\ lastDue[key] # None /\ due <= lastDue[key]
                      THEN ranTwice \cup {<<key, due>>} ELSE ranTwice
       /\ missedRanNow' = IF r.ok /\ path = "missed"
                          THEN missedRanNow \cup {key} ELSE missedRanNow
       /\ lastSnap' = lastSnap

\* fs::write of the serialized map: it succeeds, or fails after truncating
\* the file (torn), or fails before touching it, as create_dir_all failing
\* does (the file keeps its content)
save_task_states(okw, statemap) ==
    CASE okw = "written" ->
           [exists |-> TRUE, readable |-> TRUE, parses |-> TRUE,
            text |-> Serialize(statemap)]
      [] okw = "torn" ->
           [exists |-> TRUE, readable |-> TRUE, parses |-> FALSE,
            text |-> EmptyMap]
      [] OTHER -> file

\* ------------------------------------------------ App::new (the shell)
AddTask_stores_unparsed(key, cron, command) ==
    /\ UNCHANGED tunvars
    /\ phase = "setup" /\ ui.pc = "idle" /\ LockFree(lock)
    /\ tasks' = Insert(tasks, key, NewTask(cron, command, states, key, clock))
    /\ ui' = UiReturn("ok")
    /\ UNCHANGED <<clock, states, file, running, lock, phase, poll, hist>>

\* add_task(key, config), called for every configured schedule before start()
AddTask(key, cron, command) ==
    /\ UNCHANGED tunvars
    /\ phase = "setup" /\ ui.pc = "idle" /\ LockFree(lock)
    /\ IF CronParses(cron)
       THEN /\ tasks' = Insert(tasks, key,
                               NewTask(cron, command, states, key, clock))
            /\ ui' = UiReturn("ok")
       ELSE /\ tasks' = tasks
            /\ ui' = UiReturn("err_schedule")
    /\ UNCHANGED <<clock, states, file, running, lock, phase, poll, hist>>

\* task_scheduler.save_states() after the tasks were added
AppSaveInitial ==
    /\ UNCHANGED tunvars
    /\ phase = "setup" /\ ui.pc = "idle"
    /\ phase' = "saving"
    /\ ui' = [UiIdle EXCEPT !.pc = "snap", !.op = "save_states"]
    /\ UNCHANGED <<clock, tasks, states, file, running, lock, poll, hist>>

\* save_states, first part: copy last_run/next_run of every task under the lock
SaveSnapshot ==
    /\ UNCHANGED tunvars
    /\ ui.pc = "snap" /\ LockFree(lock)
    /\ ui' = [ui EXCEPT !.pc = "setstates", !.snap = Snapshot(tasks)]
    /\ lastSnap' = Snapshot(tasks)
    /\ UNCHANGED <<clock, tasks, states, file, running, lock, phase, poll,
                   lastDue, ranTwice, missedRanNow, executedOk>>

SaveSetStates_keeps_stale ==
    /\ UNCHANGED tunvars
    /\ ui.pc = "setstates"
    /\ states' = [k \in DOMAIN states \cup DOMAIN ui.snap |->
                     IF k \in DOMAIN ui.snap THEN ui.snap[k] ELSE states[k]]
    /\ ui' = [ui EXCEPT !.pc = "write"]
    /\ UNCHANGED <<clock, tasks, file, running, lock, phase, poll, hist>>

\* save_states, second part: replace the in-memory states map
SaveSetStates ==
    /\ UNCHANGED tunvars
    /\ ui.pc = "setstates"
    /\ states' = ui.snap
    /\ ui' = [ui EXCEPT !.pc = "write"]
    /\ UNCHANGED <<clock, tasks, file, running, lock, phase, poll, hist>>

\* save_states, third part: write the file, then return to the caller
SaveWrite(okw) ==
    /\ UNCHANGED tunvars
    /\ ui.pc = "write"
    /\ file' = save_task_states(okw, ui.snap)
    /\ ui' = IF ui.op = "run_task_now" THEN UiReturn("ok") ELSE UiIdle
    /\ UNCHANGED <<clock, tasks, states, running, lock, phase, poll, hist>>

start_spawns_always ==
    /\ UNCHANGED tunvars
    /\ ui.pc = "idle"
    /\ running' = TRUE
    /\ ui' = ui
    /\ \E p \in DOMAIN poll :
         /\ poll[p].pc \in {"none", "exited"}
         /\ poll' = [poll EXCEPT ![p] = [PollNone EXCEPT !.pc = "loop"]]

\* start(): warn and return when already running, else set the flag and
\* spawn the loop on a thread of its own
start ==
    /\ UNCHANGED tunvars
    /\ ui.pc = "idle"
    /\ IF running
       THEN /\ ui' = UiReturn("already_running")
            /\ UNCHANGED <<running, poll>>
       ELSE /\ running' = TRUE
            /\ ui' = ui
            /\ \E p \in DOMAIN poll :
                 /\ poll[p].pc \in {"none", "exited"}
                 /\ poll' = [poll EXCEPT ![p] = [PollNone EXCEPT !.pc = "loop"]]

AppStart ==
    /\ UNCHANGED tunvars
    /\ phase = "saving"
    /\ start
    /\ phase' = "started"
    /\ UNCHANGED <<clock, tasks, states, file, lock, hist>>

\* stop(): clear the running flag
stop ==
    /\ UNCHANGED tunvars
    /\ phase = "ready" /\ ui.pc = "idle"
    /\ running' = FALSE
    /\ UNCHANGED <<clock, tasks, states, file, lock, phase, ui, poll, hist>>

\* start() called again by the shell
Restart ==
    /\ UNCHANGED tunvars
    /\ phase = "ready"
    /\ start
    /\ UNCHANGED <<clock, tasks, states, file, lock, phase, hist>>

\* ------------------------------------------ check_and_run_missed_tasks
\* entry: read Local::now(), then wait for the task-map lock
MissedCall ==
    /\ UNCHANGED tunvars
    /\ ui.pc = "idle"
    /\ ui' = [UiIdle EXCEPT !.pc = "lock", !.op = "check_missed", !.now = clock]

\* the call at the end of App::new
AppCheckMissed ==
    /\ UNCHANGED tunvars
    /\ phase = "started"
    /\ MissedCall
    /\ phase' = "ready"
    /\ UNCHANGED <<clock, tasks, states, file, running, lock, poll, hist>>

\* the call of handle_wake_from_sleep
WakeCheckMissed ==
    /\ UNCHANGED tunvars
    /\ phase = "ready"
    /\ MissedCall
    /\ UNCHANGED <<clock, tasks, states, file, running, lock, phase, poll, hist>>

MissedLock ==
    /\ UNCHANGED tunvars
    /\ ui.pc = "lock" /\ ui.op = "check_missed" /\ LockFree(lock)
    /\ lock' = Ui
    /\ ui' = [ui EXCEPT !.pc = "iter", !.todo = DOMAIN tasks, !.any = FALSE]
    /\ UNCHANGED <<clock, tasks, states, file, running, phase, poll, hist>>

\* the for loop (in any order of the HashMap) up to the next task it finds
\* missed; the tasks it passes over stay in todo until the loop ends
MissedVisit(k) ==
    /\ UNCHANGED tunvars
    /\ ui.pc = "iter" /\ ui.op = "check_missed" /\ k \in ui.todo
    /\ IsMissed(tasks[k], ui.now)
    /\ ui' = [ui EXCEPT !.pc = "exec", !.key = k]
    /\ UNCHANGED <<clock, tasks, states, file, running, lock, phase, poll, hist>>

\* task.execute() of a missed task
MissedExecute ==
    /\ UNCHANGED tunvars
    /\ ui.pc = "exec" /\ ui.op = "check_missed"
    /\ LET r == execute(tasks[ui.key], clock)
       IN /\ tasks' = [tasks EXCEPT ![ui.key] = r.task]
          /\ ui' = [ui EXCEPT !.pc = "iter", !.todo = ui.todo \ {ui.key},
                               !.key = "", !.any = ui.any \/ r.ok]
          /\ Record("missed", ui.key, r)
    /\ UNCHANGED <<clock, states, file, running, lock, phase, poll>>

\* end of the loop: drop the lock, save when a task ran
MissedUnlock ==
    /\ UNCHANGED tunvars
    /\ ui.pc = "iter" /\ ui.op = "check_missed"
    /\ \A k \in ui.todo : ~IsMissed(tasks[k], ui.now)
    /\ lock' = Free
    /\ ui' = IF ui.any THEN [UiIdle EXCEPT !.pc = "snap", !.op = "check_missed"]
             ELSE UiIdle
    /\ UNCHANGED <<clock, tasks, states, file, running, phase, poll, hist>>

\* -------------------------------------------------------- run_task_now
RunNowCall(k) ==
    /\ UNCHANGED tunvars
    /\ phase = "ready" /\ ui.pc = "idle"
    /\ ui' = [UiIdle EXCEPT !.pc = "lock", !.op = "run_task_now", !.key = k]
    /\ UNCHANGED <<clock, tasks, states, file, running, lock, phase, poll, hist>>

RunNowLock_saves_unknown ==
    /\ UNCHANGED tunvars
    /\ ui.pc = "lock" /\ ui.op = "run_task_now" /\ LockFree(lock)
    /\ IF ui.key \in DOMAIN tasks
       THEN /\ lock' = Ui
            /\ ui' = [ui EXCEPT !.pc = "exec"]
       ELSE /\ lock' = lock
            /\ ui' = [UiIdle EXCEPT !.pc = "snap", !.op = "run_task_now"]
    /\ UNCHANGED <<clock, tasks, states, file, running, phase, poll, hist>>

\* lock the map and look the key up; an unknown key is an error
RunNowLock ==
    /\ UNCHANGED tunvars
    /\ ui.pc = "lock" /\ ui.op = "run_task_now" /\ LockFree(lock)
    /\ IF ui.key \in DOMAIN tasks
       THEN /\ lock' = Ui
            /\ ui' = [ui EXCEPT !.pc = "exec"]
       ELSE /\ lock' = lock
            /\ ui' = UiReturn("err_not_found")
    /\ UNCHANGED <<clock, tasks, states, file, running, phase, poll, hist>>

RunNowExecute_returns_unsaved ==
    /\ UNCHANGED tunvars
    /\ ui.pc = "exec" /\ ui.op = "run_task_now"
    /\ LET r == execute(tasks[ui.key], clock)
       IN /\ tasks' = [tasks EXCEPT ![ui.key] = r.task]
          /\ ui' = IF r.ok THEN UiReturn("ok") ELSE UiReturn("err_spawn")
          /\ Record("manual", ui.key, r)
    /\ lock' = Free
    /\ UNCHANGED <<clock, states, file, running, phase, poll>>

\* task.execute(), drop the lock, save on success
RunNowExecute ==
    /\ UNCHANGED tunvars
    /\ ui.pc = "exec" /\ ui.op = "run_task_now"
    /\ LET r == execute(tasks[ui.key], clock)
       IN /\ tasks' = [tasks EXCEPT ![ui.key] = r.task]
          /\ ui' = IF r.ok
                   THEN [UiIdle EXCEPT !.pc = "snap", !.op = "run_task_now",
                                       !.key = ui.key]
                   ELSE UiReturn("err_spawn")
          /\ Record("manual", ui.key, r)
    /\ lock' = Free
    /\ UNCHANGED <<clock, states, file, running, phase, poll>>

\* ------------------------------------------- the poll loop of start()
PollLoop_ignores_flag(p) ==
    /\ UNCHANGED tunvars
    /\ poll[p].pc = "loop"
    /\ poll' = [poll EXCEPT ![p] = [PollNone EXCEPT !.pc = "lock", !.now = clock]]
    /\ UNCHANGED <<clock, tasks, states, file, running, lock, phase, ui, hist>>

\* while *running.lock().unwrap() { let now = Local::now();
PollLoop(p) ==
    /\ UNCHANGED tunvars
    /\ poll[p].pc = "loop"
    /\ poll' = [poll EXCEPT ![p] =
                   IF running THEN [PollNone EXCEPT !.pc = "lock", !.now = clock]
                   ELSE [PollNone EXCEPT !.pc = "exited"]]
    /\ UNCHANGED <<clock, tasks, states, file, running, lock, phase, ui, hist>>

PollLock(p) ==
    /\ UNCHANGED tunvars
    /\ poll[p].pc = "lock" /\ LockFree(lock)
    /\ lock' = p
    /\ poll' = [poll EXCEPT ![p].pc = "iter", ![p].todo = DOMAIN tasks]
    /\ UNCHANGED <<clock, tasks, states, file, running, phase, ui, hist>>

\* the for loop (in any order of the HashMap) up to the next task it finds
\* due; the tasks it passes over stay in todo until the loop ends
PollVisit(p, k) ==
    /\ UNCHANGED tunvars
    /\ poll[p].pc = "iter" /\ k \in poll[p].todo
    /\ should_run(tasks[k], poll[p].now)
    /\ poll' = [poll EXCEPT ![p].pc = "exec", ![p].key = k]
    /\ UNCHANGED <<clock, tasks, states, file, running, lock, phase, ui, hist>>

PollExecute_stops_on_failure(p) ==
    /\ UNCHANGED tunvars
    /\ poll[p].pc = "exec"
    /\ LET k == poll[p].key
           r == execute(tasks[k], clock)
       IN /\ tasks' = [tasks EXCEPT ![k] = r.task]
          /\ poll' = [poll EXCEPT ![p].pc = "iter", ![p].key = "",
                                   ![p].todo = IF r.ok THEN poll[p].todo \ {k}
                                               ELSE {},
                                   ![p].changed = poll[p].changed \/ r.ok]
          /\ Record("poll", k, r)
    /\ UNCHANGED <<clock, states, file, running, lock, phase, ui>>

\* task.execute() of a due task
PollExecute(p) ==
    /\ UNCHANGED tunvars
    /\ poll[p].pc = "exec"
    /\ LET k == poll[p].key
           r == execute(tasks[k], clock)
       IN /\ tasks' = [tasks EXCEPT ![k] = r.task]
          /\ poll' = [poll EXCEPT ![p].pc = "iter", ![p].key = "",
                                   ![p].todo = poll[p].todo \ {k},
                                   ![p].changed = poll[p].changed \/ r.ok]
          /\ Record("poll", k, r)
    /\ UNCHANGED <<clock, states, file, running, lock, phase, ui>>

\* drop(tasks_guard)
PollUnlock(p) ==
    /\ UNCHANGED tunvars
    /\ poll[p].pc = "iter"
    /\ \A k \in poll[p].todo : ~should_run(tasks[k], poll[p].now)
    /\ lock' = Free
    /\ poll' = [poll EXCEPT ![p].pc = IF poll[p].changed THEN "snap" ELSE "sleep",
                             ![p].changed = FALSE, ![p].todo = {}, ![p].now = None]
    /\ UNCHANGED <<clock, tasks, states, file, running, phase, ui, hist>>

\* if states_changed: copy last_run/next_run of every task under the lock
PollSnapshot(p) ==
    /\ UNCHANGED tunvars
    /\ poll[p].pc = "snap" /\ LockFree(lock)
    /\ poll' = [poll EXCEPT ![p].pc = "setstates", ![p].snap = Snapshot(tasks)]
    /\ lastSnap' = Snapshot(tasks)
    /\ UNCHANGED <<clock, tasks, states, file, running, lock, phase, ui,
                   lastDue, ranTwice, missedRanNow, executedOk>>

PollSetStates(p) ==
    /\ UNCHANGED tunvars
    /\ poll[p].pc = "setstates"
    /\ states' = poll[p].snap
    /\ poll' = [poll EXCEPT ![p].pc = "write"]
    /\ UNCHANGED <<clock, tasks, file, running, lock, phase, ui, hist>>

PollWrite(p, okw) ==
    /\ UNCHANGED tunvars
    /\ poll[p].pc = "write"
    /\ file' = save_task_states(okw, poll[p].snap)
    /\ poll' = [poll EXCEPT ![p].pc = "sleep", ![p].snap = EmptyMap]
    /\ UNCHANGED <<clock, tasks, states, running, lock, phase, ui, hist>>

\* thread::sleep(30 s) returns
PollWake(p) ==
    /\ UNCHANGED tunvars
    /\ poll[p].pc = "sleep"
    /\ poll' = [poll EXCEPT ![p].pc = "loop"]
    /\ UNCHANGED <<clock, tasks, states, file, running, lock, phase, ui, hist>>

\* ------------------------------------------------------- specification
\* every step of the shell and of the scheduler's threads, with a state file
\* that can be written
Next ==
    \/ Tick
    \/ \E k \in Keys, c \in TaskConfigs : AddTask(k, c[1], c[2])
    \/ AppSaveInitial
    \/ SaveSnapshot
    \/ SaveSetStates
    \/ SaveWrite("written")
    \/ AppStart
    \/ AppCheckMissed
    \/ WakeCheckMissed
    \/ MissedLock
    \/ \E k \in Keys : MissedVisit(k)
    \/ MissedExecute
    \/ MissedUnlock
    \/ \E k \in Keys : RunNowCall(k)
    \/ RunNowLock
    \/ RunNowExecute
    \/ stop
    \/ Restart
    \/ \E p \in PollerIds : PollLoop(p)
    \/ \E p \in PollerIds : PollLock(p)
    \/ \E p \in PollerIds, k \in Keys : PollVisit(p, k)
    \/ \E p \in PollerIds : PollExecute(p)
    \/ \E p \in PollerIds : PollUnlock(p)
    \/ \E p \in PollerIds : PollSnapshot(p)
    \/ \E p \in PollerIds : PollSetStates(p)
    \/ \E p \in PollerIds : PollWrite(p, "written")
    \/ \E p \in PollerIds : PollWake(p)

Spec == Init /\ [][Next]_vars

\* The same steps under fair scheduling: a poll-loop thread that can take a
\* step takes it, its sleep ends, a thread that keeps asking for the task-map
\* lock gets it, and the UI thread finishes the loop it runs under the lock.
\* The steps of one thread exclude each other (each needs its own pc), so
\* fairness of a disjunction is fairness of each of its steps.
PollRuns(p) ==
    \/ PollLoop(p)
    \/ \E k \in Keys : PollVisit(p, k)
    \/ PollExecute(p)
    \/ PollUnlock(p)
    \/ PollSetStates(p)
    \/ PollWrite(p, "written")
    \/ PollWake(p)

PollLocks(p) == PollLock(p) \/ PollSnapshot(p)

UiRunsLocked ==
    \/ \E k \in Keys : MissedVisit(k)
    \/ MissedExecute
    \/ MissedUnlock
    \/ RunNowExecute

Fairness ==
    /\ \A p \in PollerIds : WF_vars(PollRuns(p)) /\ SF_vars(PollLocks(p))
    /\ WF_vars(UiRunsLocked)

\* the process starts with no state file
InitNoFile == Init /\ file = NoFile

FairSpec == InitNoFile /\ [][Next]_vars /\ Fairness

\* ------------------------------------------- the process is started again
\* The process ends at any moment outside a write of the state file and is
\* started again: TaskScheduler::new loads the state file that the ended
\* process left, the shell adds the schedules anew.
ProcessRestart ==
    /\ UNCHANGED tunvars
    /\ phase # "setup"
    /\ ui.pc # "write" /\ \A p \in PollerIds : poll[p].pc # "write"
    /\ tasks' = EmptyMap
    /\ states' = load_task_states(file)
    /\ running' = FALSE
    /\ lock' = Free
    /\ phase' = "setup"
    /\ ui' = UiIdle
    /\ poll' = [p \in PollerIds |-> PollNone]
    /\ lastDue' = [k \in Keys |-> None]
    /\ ranTwice' = {}
    /\ missedRanNow' = {}
    /\ executedOk' = {}
    /\ lastSnap' = load_task_states(file)
    /\ UNCHANGED <<clock, file>>

\* the wall clock that Local::now() reads is set back, once, between two
\* runs of the process
ClockSetBack ==
    /\ ~setBack
    /\ phase = "setup" /\ tasks = EmptyMap /\ file.exists
    /\ clock > Past
    /\ \E t \in Past..(clock - 1) : clock' = t
    /\ setBack' = TRUE
    /\ missedRanNow' = {}
    /\ UNCHANGED <<tasks, states, file, running, lock, phase, ui, poll,
                   lastDue, ranTwice, executedOk, lastSnap>>
    /\ UNCHANGED <<commands, poisoned, active, sup, tui, sig, stopRuns, mutex,
                   appRunning, loop, environ, configFile, childPath>>

RerunKeys == {"a"}
RerunConfigs == {<<"every", "ok">>, <<"once", "ok">>}

NextRerun ==
    \/ Tick
    \/ \E k \in RerunKeys, c \in RerunConfigs : AddTask(k, c[1], c[2])
    \/ AppSaveInitial
    \/ SaveSnapshot
    \/ SaveSetStates
    \/ SaveWrite("written")
    \/ AppStart
    \/ AppCheckMissed
    \/ MissedLock
    \/ \E k \in RerunKeys : MissedVisit(k)
    \/ MissedExecute
    \/ MissedUnlock
    \/ \E k \in RerunKeys : RunNowCall(k)
    \/ RunNowLock
    \/ RunNowExecute
    \/ \E p \in PollerIds : PollLoop(p)
    \/ \E p \in PollerIds : PollLock(p)
    \/ \E p \in PollerIds, k \in RerunKeys : PollVisit(p, k)
    \/ \E p \in PollerIds : PollExecute(p)
    \/ \E p \in PollerIds : PollUnlock(p)
    \/ \E p \in PollerIds : PollSnapshot(p)
    \/ \E p \in PollerIds : PollSetStates(p)
    \/ \E p \in PollerIds : PollWrite(p, "written")
    \/ \E p \in PollerIds : PollWake(p)
    \/ ProcessRestart
    \/ ClockSetBack

\* runs of the process one after the other, the first one without a state
\* file: every state file read was written by the scheduler
RerunSpec == InitNoFile /\ [][NextRerun]_vars

\* ------------------------------------- stop() followed by start()
\* The steps of start(), stop(), the missed-run check and the poll loop when
\* start() may spawn a second thread while the first one is still alive:
\* one schedule, no state file, no manual runs.
RestartPollerIds == {"poll1", "poll2"}
RestartKeys == {"a"}
RestartConfigs == {<<"every", "ok">>}

InitRestart ==
    /\ TunnelManagerNew(TunnelKeys)
    /\ EventLoopNew
    /\ EnvironNew
    /\ clock = StartTime
    /\ tasks = EmptyMap
    /\ file = NoFile
    /\ states = load_task_states(file)
    /\ running = FALSE
    /\ lock = Free
    /\ phase = "setup"
    /\ ui = UiIdle
    /\ poll = [p \in RestartPollerIds |-> PollNone]
    /\ lastDue = [k \in Keys |-> None]
    /\ ranTwice = {}
    /\ missedRanNow = {}
    /\ executedOk = {}
    /\ lastSnap = states

NextRestart ==
    \/ Tick
    \/ \E k \in RestartKeys, c \in RestartConfigs : AddTask(k, c[1], c[2])
    \/ AppSaveInitial
    \/ SaveSnapshot
    \/ SaveSetStates
    \/ SaveWrite("written")
    \/ AppStart
    \/ AppCheckMissed
    \/ MissedLock
    \/ \E k \in RestartKeys : MissedVisit(k)
    \/ MissedExecute
    \/ MissedUnlock
    \/ stop
    \/ Restart
    \/ \E p \in RestartPollerIds : PollLoop(p)
    \/ \E p \in RestartPollerIds : PollLock(p)
    \/ \E p \in RestartPollerIds, k \in RestartKeys : PollVisit(p, k)
    \/ \E p \in RestartPollerIds : PollExecute(p)
    \/ \E p \in RestartPollerIds : PollUnlock(p)
    \/ \E p \in RestartPollerIds : PollSnapshot(p)
    \/ \E p \in RestartPollerIds : PollSetStates(p)
    \/ \E p \in RestartPollerIds : PollWrite(p, "written")
    \/ \E p \in RestartPollerIds : PollWake(p)

RestartSpec == InitRestart /\ [][NextRestart]_vars

\* ------------------------------------------ a disk that can fail
\* The steps of the scheduler with one schedule when the state file may be
\* missing, unreadable or unparsable at start and every write of it may
\* succeed, be refused, or leave a torn file behind.
WriteOutcomes == {"written", "refused", "torn"}
DiskKeys == {"a"}
DiskConfigs == {<<"every", "ok">>}

\* a state file of an earlier run that read_to_string cannot read
UnreadableFile ==
    [exists |-> TRUE, readable |-> FALSE, parses |-> TRUE,
     text |-> Serialize([k \in PersistedKeys |->
                           [last_run |-> None, next_run |-> Past]])]

InitDisk ==
    /\ TunnelManagerNew(TunnelKeys)
    /\ EventLoopNew
    /\ EnvironNew
    /\ clock = StartTime
    /\ tasks = EmptyMap
    /\ file \in InitialFiles \cup {UnreadableFile}
    /\ states = load_task_states(file)
    /\ running = FALSE
    /\ lock = Free
    /\ phase = "setup"
    /\ ui = UiIdle
    /\ poll = [p \in PollerIds |-> PollNone]
    /\ lastDue = [k \in Keys |-> None]
    /\ ranTwice = {}
    /\ missedRanNow = {}
    /\ executedOk = {}
    /\ lastSnap = states

NextDisk ==
    \/ Tick
    \/ \E k \in DiskKeys, c \in DiskConfigs : AddTask(k, c[1], c[2])
    \/ AppSaveInitial
    \/ SaveSnapshot
    \/ SaveSetStates
    \/ \E w \in WriteOutcomes : SaveWrite(w)
    \/ AppStart
    \/ AppCheckMissed
    \/ WakeCheckMissed
    \/ MissedLock
    \/ \E k \in DiskKeys : MissedVisit(k)
    \/ MissedExecute
    \/ MissedUnlock
    \/ \E k \in DiskKeys : RunNowCall(k)
    \/ RunNowLock
    \/ RunNowExecute
    \/ stop
    \/ Restart
    \/ \E p \in PollerIds : PollLoop(p)
    \/ \E p \in PollerIds : PollLock(p)
    \/ \E p \in PollerIds, k \in DiskKeys : PollVisit(p, k)
    \/ \E p \in PollerIds : PollExecute(p)
    \/ \E p \in PollerIds : PollUnlock(p)
    \/ \E p \in PollerIds : PollSnapshot(p)
    \/ \E p \in PollerIds : PollSetStates(p)
    \/ \E p \in PollerIds, w \in WriteOutcomes : PollWrite(p, w)
    \/ \E p \in PollerIds : PollWake(p)

DiskSpec == InitDisk /\ [][NextDisk]_vars

\* ------------------------------------------------------- tunnel manager
\* has_active_tunnels(): the active set is not empty
has_active_tunnels == active # {}

\* a thread id that no live supervisor thread holds
FreeSlots == {s \in SupIds : sup[s].pc \in {"none", "done", "panicked"}}

ToggleOn_exclusive(k) ==
    /\ tui.pc = "idle" /\ sig = "idle" /\ FreeSlots # {}
    /\ active' = {k}
    /\ LET s == CHOOSE x \in FreeSlots : TRUE
       IN  sup' = [t \in SupIds |->
                     IF t = s
                     THEN [SupNone EXCEPT !.pc = "check", !.key = k]
                     ELSE IF sup[t].key = k THEN [sup[t] EXCEPT !.late = 0]
                     ELSE sup[t]]
    /\ tui' = [TuiIdle EXCEPT !.pc = "ret", !.op = "toggle_on", !.key = k,
                              !.was = (k \in active),
                              !.after = active \cup {k}]
    /\ stopRuns' = [x \in TunnelKeys |-> 0]
    /\ UNCHANGED <<commands, poisoned, sig>>
    /\ UNCHANGED <<schedvars, mutex, appvars>>

\* toggle(key, true): the key is inserted and a supervisor thread is spawned
\* for it, whether or not the key was active already
ToggleOn(k) ==
    /\ tui.pc = "idle" /\ sig = "idle" /\ FreeSlots # {}
    /\ active' = active \cup {k}
    /\ LET s == CHOOSE x \in FreeSlots : TRUE
       IN  sup' = [t \in SupIds |->
                     IF t = s
                     THEN [SupNone EXCEPT !.pc = "check", !.key = k]
                     ELSE IF sup[t].key = k THEN [sup[t] EXCEPT !.late = 0]
                     ELSE sup[t]]
    /\ tui' = [TuiIdle EXCEPT !.pc = "ret", !.op = "toggle_on", !.key = k,
                              !.was = (k \in active),
                              !.after = active \cup {k}]
    /\ stopRuns' = [x \in TunnelKeys |-> 0]
    /\ UNCHANGED <<commands, poisoned, sig>>
    /\ UNCHANGED <<schedvars, mutex, appvars>>

ToggleOff_keeps_key(k) ==
    /\ tui.pc = "idle" /\ sig = "idle"
    /\ active' = active
    /\ tui' = [TuiIdle EXCEPT !.pc = "kill", !.op = "toggle_off", !.key = k,
                              !.was = (k \in active),
                              !.after = active \ {k}]
    /\ stopRuns' = [x \in TunnelKeys |-> 0]
    /\ UNCHANGED <<commands, poisoned, sup, sig>>
    /\ UNCHANGED <<schedvars, mutex, appvars>>

\* toggle(key, false): the key is removed from the active set
ToggleOff(k) ==
    /\ tui.pc = "idle" /\ sig = "idle"
    /\ active' = active \ {k}
    /\ tui' = [TuiIdle EXCEPT !.pc = "kill", !.op = "toggle_off", !.key = k,
                              !.was = (k \in active),
                              !.after = active \ {k}]
    /\ stopRuns' = [x \in TunnelKeys |-> 0]
    /\ UNCHANGED <<commands, poisoned, sup, sig>>
    /\ UNCHANGED <<schedvars, mutex, appvars>>

ToggleOffKill_only_if_was_active(okk) ==
    /\ tui.pc = "kill"
    /\ IF poisoned
       THEN /\ tui' = [tui EXCEPT !.pc = "panicked"]
            /\ UNCHANGED <<poisoned, stopRuns>>
       ELSE IF tui.key \notin commands
       THEN /\ tui' = [tui EXCEPT !.pc = "panicked"]
            /\ poisoned' = TRUE
            /\ UNCHANGED stopRuns
       ELSE /\ tui' = [tui EXCEPT !.pc = "ret",
                                  !.killed = IF ~tui.was THEN "none"
                                             ELSE IF okk THEN "ok"
                                             ELSE "failed"]
            /\ stopRuns' = [stopRuns EXCEPT ![tui.key] =
                                               IF tui.was THEN @ + 1 ELSE @]
            /\ UNCHANGED poisoned
    /\ UNCHANGED <<commands, active, sup, sig>>
    /\ UNCHANGED <<schedvars, mutex, appvars>>

\* toggle(key, false): the key's entry is read from the registry (a panic
\* when the mutex is poisoned or the key has no entry, the second with the
\* guard held) and its stop command is run to completion
ToggleOffKill(okk) ==
    /\ tui.pc = "kill"
    /\ IF poisoned
       THEN /\ tui' = [tui EXCEPT !.pc = "panicked"]
            /\ UNCHANGED <<poisoned, stopRuns>>
       ELSE IF tui.key \notin commands
       THEN /\ tui' = [tui EXCEPT !.pc = "panicked"]
            /\ poisoned' = TRUE
            /\ UNCHANGED stopRuns
       ELSE /\ tui' = [tui EXCEPT !.pc = "ret",
                                  !.killed = IF okk THEN "ok" ELSE "failed"]
            /\ stopRuns' = [stopRuns EXCEPT ![tui.key] = @ + 1]
            /\ UNCHANGED poisoned
    /\ UNCHANGED <<commands, active, sup, sig>>
    /\ UNCHANGED <<schedvars, mutex, appvars>>

ToggleReturn_reports_own_change ==
    /\ tui.pc = "ret"
    /\ tui' = [tui EXCEPT !.pc = "idle",
                          !.ret = IF tui.after # {} THEN "true" ELSE "false"]
    /\ UNCHANGED <<commands, poisoned, active, sup, sig, stopRuns>>
    /\ UNCHANGED <<schedvars, mutex, appvars>>

\* toggle returns has_active_tunnels()
ToggleReturn ==
    /\ tui.pc = "ret"
    /\ tui' = [tui EXCEPT !.pc = "idle",
                          !.ret = IF has_active_tunnels THEN "true"
                                  ELSE "false"]
    /\ UNCHANGED <<commands, poisoned, active, sup, sig, stopRuns>>
    /\ UNCHANGED <<schedvars, mutex, appvars>>

Cleanup_without_clear ==
    /\ tui.pc = "idle"
    /\ IF poisoned
       THEN /\ tui' = [TuiIdle EXCEPT !.pc = "panicked", !.op = "cleanup"]
            /\ UNCHANGED <<active, stopRuns>>
       ELSE /\ stopRuns' = [k \in TunnelKeys |->
                              IF k \in active \cap commands THEN 1 ELSE 0]
            /\ active' = active
            /\ tui' = [TuiIdle EXCEPT !.op = "cleanup",
                                      !.was = (tui.op = "cleanup")]
    /\ UNCHANGED <<commands, poisoned, sup, sig>>
    /\ UNCHANGED <<schedvars, mutex, appvars>>

\* cleanup() on the UI thread, both locks held throughout: the stop command
\* of every active key that has a registry entry is run, then the set is
\* cleared
Cleanup ==
    /\ tui.pc = "idle"
    /\ IF poisoned
       THEN /\ tui' = [TuiIdle EXCEPT !.pc = "panicked", !.op = "cleanup"]
            /\ UNCHANGED <<active, stopRuns>>
       ELSE /\ stopRuns' = [k \in TunnelKeys |->
                              IF k \in active \cap commands THEN 1 ELSE 0]
            /\ active' = {}
            /\ tui' = [TuiIdle EXCEPT !.op = "cleanup",
                                      !.was = (tui.op = "cleanup")]
    /\ UNCHANGED <<commands, poisoned, sup, sig>>
    /\ UNCHANGED <<schedvars, mutex, appvars>>

\* cleanup() on the interrupt handler's thread, at any moment of the UI
\* thread's call
SigCleanup ==
    /\ sig = "idle"
    /\ IF poisoned
       THEN sig' = "panicked" /\ UNCHANGED active
       ELSE sig' = "done" /\ active' = {}
    /\ UNCHANGED <<commands, poisoned, sup, tui, stopRuns>>
    /\ UNCHANGED <<schedvars, mutex, appvars>>

SupCheck_ignores_removal(s) ==
    /\ sup[s].pc = "check"
    /\ sup' = [sup EXCEPT ![s].pc =
                 IF sup[s].attempts < MaxAttempts THEN "spawn" ELSE "done"]
    /\ UNCHANGED <<commands, poisoned, active, tui, sig, stopRuns>>
    /\ UNCHANGED <<schedvars, mutex, appvars>>

SupCheck_one_more(s) ==
    /\ sup[s].pc = "check"
    /\ sup' = [sup EXCEPT ![s].pc =
                 IF sup[s].key \in active /\ sup[s].attempts <= MaxAttempts
                 THEN "spawn" ELSE "done"]
    /\ UNCHANGED <<commands, poisoned, active, tui, sig, stopRuns>>
    /\ UNCHANGED <<schedvars, mutex, appvars>>

SupCheck_exhausted_removes(s) ==
    /\ sup[s].pc = "check"
    /\ sup' = [sup EXCEPT ![s].pc =
                 IF sup[s].key \in active /\ sup[s].attempts < MaxAttempts
                 THEN "spawn" ELSE "done"]
    /\ active' = IF sup[s].attempts < MaxAttempts THEN active
                 ELSE active \ {sup[s].key}
    /\ UNCHANGED <<commands, poisoned, tui, sig, stopRuns>>
    /\ UNCHANGED <<schedvars, mutex, appvars>>

\* while is_active() && attempts < 5; the warning after the loop
SupCheck(s) ==
    /\ sup[s].pc = "check"
    /\ sup' = [sup EXCEPT ![s].pc =
                 IF sup[s].key \in active /\ sup[s].attempts < MaxAttempts
                 THEN "spawn" ELSE "done"]
    /\ UNCHANGED <<commands, poisoned, active, tui, sig, stopRuns>>
    /\ UNCHANGED <<schedvars, mutex, appvars>>

\* the loop body up to the spawn: the key's entry is read from the registry
\* (a panic when the mutex is poisoned or the key has no entry, the second
\* with the guard held), then the start command is spawned; a spawn error
\* counts as an attempt
SupSpawn(s, oks) ==
    /\ sup[s].pc = "spawn"
    /\ IF poisoned
       THEN /\ sup' = [sup EXCEPT ![s].pc = "panicked"]
            /\ UNCHANGED poisoned
       ELSE IF sup[s].key \notin commands
       THEN /\ sup' = [sup EXCEPT ![s].pc = "panicked"]
            /\ poisoned' = TRUE
       ELSE /\ sup' = [sup EXCEPT
                         ![s].spawns = @ + 1,
                         ![s].late = IF sup[s].key \in active THEN @
                                     ELSE @ + 1,
                         ![s].attempts = IF oks THEN @ ELSE @ + 1,
                         ![s].pc = IF oks THEN "wait" ELSE "check"]
            /\ UNCHANGED poisoned
    /\ UNCHANGED <<commands, active, tui, sig, stopRuns>>
    /\ UNCHANGED <<schedvars, mutex, appvars>>

SupChildExits_respawns(s) ==
    /\ sup[s].pc = "wait"
    /\ sup' = [sup EXCEPT ![s].attempts = @ + 1,
                          ![s].pc = IF sup[s].attempts + 1 < MaxAttempts
                                    THEN "spawn" ELSE "check"]
    /\ UNCHANGED <<commands, poisoned, active, tui, sig, stopRuns>>
    /\ UNCHANGED <<schedvars, mutex, appvars>>

\* child.wait() returns: the attempt is counted
SupChildExits(s) ==
    /\ sup[s].pc = "wait"
    /\ sup' = [sup EXCEPT ![s].attempts = @ + 1, ![s].pc = "check"]
    /\ UNCHANGED <<commands, poisoned, active, tui, sig, stopRuns>>
    /\ UNCHANGED <<schedvars, mutex, appvars>>

\* every step of the UI thread, the interrupt handler and the supervisor
\* threads of the tunnel manager
NextTunnel ==
    \/ \E k \in TunnelKeys : ToggleOn(k)
    \/ \E k \in TunnelKeys : ToggleOff(k)
    \/ \E okk \in BOOLEAN : ToggleOffKill(okk)
    \/ ToggleReturn
    \/ Cleanup
    \/ SigCleanup
    \/ \E s \in SupIds : SupCheck(s)
    \/ \E s \in SupIds, oks \in BOOLEAN : SupSpawn(s, oks)
    \/ \E s \in SupIds : SupChildExits(s)

\* every configured tunnel has a registry entry
TunnelSpec == InitNoFile /\ [][NextTunnel]_vars

\* a caller toggles a key that has no entry in the registry
RegisteredKeys == {"t1"}

InitOrphan ==
    /\ TunnelManagerNew(RegisteredKeys)
    /\ EventLoopNew
    /\ EnvironNew
    /\ clock = StartTime
    /\ tasks = EmptyMap
    /\ file = NoFile
    /\ states = load_task_states(file)
    /\ running = FALSE
    /\ lock = Free
    /\ phase = "setup"
    /\ ui = UiIdle
    /\ poll = [p \in PollerIds |-> PollNone]
    /\ lastDue = [k \in Keys |-> None]
    /\ ranTwice = {}
    /\ missedRanNow = {}
    /\ executedOk = {}
    /\ lastSnap = states

OrphanSpec == InitOrphan /\ [][NextTunnel]_vars

\* ------------------------------------------- the mutexes, lock by lock
\* The same calls with every lock() of commands_config and active_tunnels a
\* step of its own: one tunnel, one supervisor thread, one schedule with a
\* run to make up for, the UI thread toggling and cleaning up once the
\* scheduler runs, the interrupt handler calling cleanup() and then stop().
Sig == "sig"
LockKeys == {"t1"}
LockSupIds == {"s1"}
LockThreads == {Ui, Sig} \cup LockSupIds
LockTaskKeys == {"a"}
LockTaskConfigs == {<<"every", "ok">>}

\* lock(): granted when no thread holds the mutex
Acquire(t, m) == mutex[m] = Free /\ mutex' = [mutex EXCEPT ![m] = t]

\* the guards in ms are dropped
Release(ms) == mutex' = [m \in Mutexes |-> IF m \in ms THEN Free ELSE mutex[m]]

\* the UI thread enters toggle(k, enable)
LToggleCall(k, enable) ==
    /\ phase = "ready" /\ ui.pc = "idle"
    /\ tui.pc = "idle" /\ sig = "idle"
    /\ enable => \E s \in LockSupIds : s \in FreeSlots
    /\ tui' = [TuiIdle EXCEPT !.pc = "lock_active",
                              !.op = IF enable THEN "toggle_on"
                                     ELSE "toggle_off",
                              !.key = k]
    /\ UNCHANGED <<commands, poisoned, active, sup, sig, stopRuns, mutex>>
    /\ UNCHANGED <<schedvars, appvars>>

\* active_tunnels.lock() at the head of either branch of toggle
LToggleLockActive ==
    /\ tui.pc = "lock_active"
    /\ Acquire(Ui, "active_tunnels")
    /\ tui' = [tui EXCEPT !.pc = IF tui.op = "toggle_on" THEN "insert"
                                 ELSE "remove"]
    /\ UNCHANGED <<commands, poisoned, active, sup, sig, stopRuns>>
    /\ UNCHANGED <<schedvars, appvars>>

\* insert, the guard dropped at the end of the block, thread::spawn
LToggleInsert ==
    /\ tui.pc = "insert"
    /\ active' = active \cup {tui.key}
    /\ Release({"active_tunnels"})
    /\ LET s == CHOOSE x \in LockSupIds \cap FreeSlots : TRUE
       IN  sup' = [sup EXCEPT ![s] = [SupNone EXCEPT !.pc = "lock_active",
                                                    !.key = tui.key]]
    /\ tui' = [tui EXCEPT !.pc = "lock_active_ret"]
    /\ UNCHANGED <<commands, poisoned, sig, stopRuns>>
    /\ UNCHANGED <<schedvars, appvars>>

\* remove, the guard dropped at the end of the block
LToggleRemove ==
    /\ tui.pc = "remove"
    /\ active' = active \ {tui.key}
    /\ Release({"active_tunnels"})
    /\ tui' = [tui EXCEPT !.pc = "lock_config"]
    /\ UNCHANGED <<commands, poisoned, sup, sig, stopRuns>>
    /\ UNCHANGED <<schedvars, appvars>>

\* commands_config.lock() of the disable branch
LToggleLockConfig ==
    /\ tui.pc = "lock_config"
    /\ Acquire(Ui, "commands_config")
    /\ tui' = [tui EXCEPT !.pc = "get"]
    /\ UNCHANGED <<commands, poisoned, active, sup, sig, stopRuns>>
    /\ UNCHANGED <<schedvars, appvars>>

\* the entry is cloned and the guard dropped
LToggleGet ==
    /\ tui.pc = "get"
    /\ Release({"commands_config"})
    /\ tui' = [tui EXCEPT !.pc = "kill"]
    /\ UNCHANGED <<commands, poisoned, active, sup, sig, stopRuns>>
    /\ UNCHANGED <<schedvars, appvars>>

\* the stop command runs to its end with no guard held
LToggleKill ==
    /\ tui.pc = "kill"
    /\ tui' = [tui EXCEPT !.pc = "lock_active_ret"]
    /\ UNCHANGED <<commands, poisoned, active, sup, sig, stopRuns, mutex>>
    /\ UNCHANGED <<schedvars, appvars>>

\* active_tunnels.lock() in has_active_tunnels()
LHasActiveLock ==
    /\ tui.pc = "lock_active_ret"
    /\ Acquire(Ui, "active_tunnels")
    /\ tui' = [tui EXCEPT !.pc = "read"]
    /\ UNCHANGED <<commands, poisoned, active, sup, sig, stopRuns>>
    /\ UNCHANGED <<schedvars, appvars>>

\* !tunnels.is_empty() is returned and the guard dropped
LHasActiveRead ==
    /\ tui.pc = "read"
    /\ Release({"active_tunnels"})
    /\ tui' = [tui EXCEPT !.pc = "idle",
                          !.ret = IF has_active_tunnels THEN "true"
                                  ELSE "false"]
    /\ UNCHANGED <<commands, poisoned, active, sup, sig, stopRuns>>
    /\ UNCHANGED <<schedvars, appvars>>

\* where thread t stands inside cleanup(), t the UI thread or the
\* interrupt handler's
CleanupPc(t) == IF t = Ui THEN tui.pc ELSE sig

CleanupGoes(t, pc) ==
    IF t = Ui THEN tui' = [tui EXCEPT !.pc = pc] /\ sig' = sig
    ELSE sig' = pc /\ tui' = tui

\* cleanup() is called: by the UI thread at exit, by the handler on a signal
LCleanupCall(t) ==
    /\ phase = "ready" /\ ui.pc = "idle"
    /\ IF t = Ui
       THEN /\ tui.pc = "idle"
            /\ tui' = [TuiIdle EXCEPT !.pc = "c_lock_config",
                                      !.op = "cleanup"]
            /\ sig' = sig
       ELSE /\ sig = "idle"
            /\ sig' = "c_lock_config" /\ tui' = tui
    /\ UNCHANGED <<commands, poisoned, active, sup, stopRuns, mutex>>
    /\ UNCHANGED <<schedvars, appvars>>

\* commands_config.lock(), the first statement of cleanup
LCleanupLockConfig(t) ==
    /\ t \in {Ui, Sig} /\ CleanupPc(t) = "c_lock_config"
    /\ Acquire(t, "commands_config")
    /\ CleanupGoes(t, "c_lock_active")
    /\ UNCHANGED <<commands, poisoned, active, sup, stopRuns>>
    /\ UNCHANGED <<schedvars, appvars>>

\* active_tunnels.lock(), the second statement, the first guard held
LCleanupLockActive(t) ==
    /\ t \in {Ui, Sig} /\ CleanupPc(t) = "c_lock_active"
    /\ Acquire(t, "active_tunnels")
    /\ CleanupGoes(t, "c_kill")
    /\ UNCHANGED <<commands, poisoned, active, sup, stopRuns>>
    /\ UNCHANGED <<schedvars, appvars>>

\* the stop commands run to their end with both guards held, the set is
\* cleared, and both guards are dropped at the return; the handler goes on
\* to stop()
LCleanupKillAndClear(t) ==
    /\ t \in {Ui, Sig} /\ CleanupPc(t) = "c_kill"
    /\ active' = {}
    /\ Release(Mutexes)
    /\ CleanupGoes(t, IF t = Ui THEN "idle" ELSE "stop")
    /\ UNCHANGED <<commands, poisoned, sup, stopRuns>>
    /\ UNCHANGED <<schedvars, appvars>>

\* sched.stop() and running.store(false) in the interrupt handler
LSigStop ==
    /\ sig = "stop"
    /\ sig' = "done"
    /\ running' = FALSE
    /\ appRunning' = FALSE
    /\ UNCHANGED loop
    /\ UNCHANGED <<commands, poisoned, active, sup, tui, stopRuns, mutex>>
    /\ UNCHANGED <<clock, tasks, states, file, lock, phase, ui, poll, hist>>
    /\ UNCHANGED envvars

\* is_active(): active_tunnels.lock() at the loop test
LSupLockActive(s) ==
    /\ sup[s].pc = "lock_active"
    /\ Acquire(s, "active_tunnels")
    /\ sup' = [sup EXCEPT ![s].pc = "is_active"]
    /\ UNCHANGED <<commands, poisoned, active, tui, sig, stopRuns>>
    /\ UNCHANGED <<schedvars, appvars>>

\* a supervisor that keeps the guard of is_active() through the loop body
LSupIsActive_keeps_guard(s) ==
    /\ sup[s].pc = "is_active"
    /\ IF sup[s].key \in active /\ sup[s].attempts < MaxAttempts
       THEN sup' = [sup EXCEPT ![s].pc = "lock_config"] /\ mutex' = mutex
       ELSE sup' = [sup EXCEPT ![s].pc = "done"]
            /\ Release({"active_tunnels"})
    /\ UNCHANGED <<commands, poisoned, active, tui, sig, stopRuns>>
    /\ UNCHANGED <<schedvars, appvars>>

\* contains() is read, the guard is dropped at the end of the closure, and
\* the loop test is decided
LSupIsActive(s) ==
    /\ sup[s].pc = "is_active"
    /\ Release({"active_tunnels"})
    /\ sup' = [sup EXCEPT ![s].pc =
                 IF sup[s].key \in active /\ sup[s].attempts < MaxAttempts
                 THEN "lock_config" ELSE "done"]
    /\ UNCHANGED <<commands, poisoned, active, tui, sig, stopRuns>>
    /\ UNCHANGED <<schedvars, appvars>>

\* commands_config.lock() at the head of the loop body
LSupLockConfig(s) ==
    /\ sup[s].pc = "lock_config"
    /\ Acquire(s, "commands_config")
    /\ sup' = [sup EXCEPT ![s].pc = "get"]
    /\ UNCHANGED <<commands, poisoned, active, tui, sig, stopRuns>>
    /\ UNCHANGED <<schedvars, appvars>>

\* the entry is cloned and the guard dropped
LSupGet(s) ==
    /\ sup[s].pc = "get"
    /\ Release({"commands_config"})
    /\ sup' = [sup EXCEPT ![s].pc = "spawn"]
    /\ UNCHANGED <<commands, poisoned, active, tui, sig, stopRuns>>
    /\ UNCHANGED <<schedvars, appvars>>

\* the start command is spawned with no guard held
LSupSpawn(s, oks) ==
    /\ sup[s].pc = "spawn" /\ mutex["commands_config"] # s
    /\ sup' = [sup EXCEPT
                 ![s].attempts = IF oks THEN @ ELSE @ + 1,
                 ![s].pc = IF oks THEN "wait" ELSE "lock_active"]
    /\ UNCHANGED <<commands, poisoned, active, tui, sig, stopRuns, mutex>>
    /\ UNCHANGED <<schedvars, appvars>>

\* child.wait() returns
LSupChildExits(s) ==
    /\ sup[s].pc = "wait" /\ mutex["commands_config"] # s
    /\ sup' = [sup EXCEPT ![s].attempts = @ + 1, ![s].pc = "lock_active"]
    /\ UNCHANGED <<commands, poisoned, active, tui, sig, stopRuns, mutex>>
    /\ UNCHANGED <<schedvars, appvars>>

\* the state file of an earlier run that left a run of the schedule unmade
MissedRunFile ==
    [exists |-> TRUE, readable |-> TRUE, parses |-> TRUE,
     text |-> Serialize([k \in LockTaskKeys |->
                           [last_run |-> None, next_run |-> Past]])]

InitLock == Init /\ file = MissedRunFile

\* the steps within one instant of the clock
NextLock ==
    \/ \E k \in LockTaskKeys, c \in LockTaskConfigs : AddTask(k, c[1], c[2])
    \/ AppSaveInitial
    \/ SaveSnapshot
    \/ SaveSetStates
    \/ SaveWrite("written")
    \/ AppStart
    \/ AppCheckMissed
    \/ MissedLock
    \/ \E k \in LockTaskKeys : MissedVisit(k)
    \/ MissedExecute
    \/ MissedUnlock
    \/ \E p \in PollerIds : PollLoop(p)
    \/ \E p \in PollerIds : PollLock(p)
    \/ \E p \in PollerIds, k \in LockTaskKeys : PollVisit(p, k)
    \/ \E p \in PollerIds : PollExecute(p)
    \/ \E p \in PollerIds : PollUnlock(p)
    \/ \E p \in PollerIds : PollSnapshot(p)
    \/ \E p \in PollerIds : PollSetStates(p)
    \/ \E p \in PollerIds : PollWrite(p, "written")
    \/ \E p \in PollerIds : PollWake(p)
    \/ \E k \in LockKeys, e \in BOOLEAN : LToggleCall(k, e)
    \/ LToggleLockActive
    \/ LToggleInsert
    \/ LToggleRemove
    \/ LToggleLockConfig
    \/ LToggleGet
    \/ LToggleKill
    \/ LHasActiveLock
    \/ LHasActiveRead
    \/ \E t \in {Ui, Sig} : LCleanupCall(t)
    \/ \E t \in {Ui, Sig} : LCleanupLockConfig(t)
    \/ \E t \in {Ui, Sig} : LCleanupLockActive(t)
    \/ \E t \in {Ui, Sig} : LCleanupKillAndClear(t)
    \/ LSigStop
    \/ \E s \in LockSupIds : LSupLockActive(s)
    \/ \E s \in LockSupIds : LSupIsActive(s)
    \/ \E s \in LockSupIds : LSupLockConfig(s)
    \/ \E s \in LockSupIds : LSupGet(s)
    \/ \E s \in LockSupIds, oks \in BOOLEAN : LSupSpawn(s, oks)
    \/ \E s \in LockSupIds : LSupChildExits(s)

\* the steps of a thread that need no mutex: they are taken in the end, the
\* external commands included
LockRuns(t) ==
    \/ /\ t = Ui
       /\ (LToggleInsert \/ LToggleRemove \/ LToggleGet \/ LToggleKill
           \/ LHasActiveRead \/ LCleanupKillAndClear(Ui))
    \/ /\ t = Sig
       /\ (LCleanupKillAndClear(Sig) \/ LSigStop)
    \/ /\ t \in LockSupIds
       /\ (LSupIsActive(t) \/ LSupGet(t) \/ LSupSpawn(t, TRUE)
           \/ LSupChildExits(t))

\* the lock() calls of a thread: granted in the end when the mutex is free
\* again and again
LockLocks(t) ==
    \/ /\ t = Ui
       /\ (LToggleLockActive \/ LToggleLockConfig \/ LHasActiveLock
           \/ LCleanupLockConfig(Ui) \/ LCleanupLockActive(Ui))
    \/ /\ t = Sig
       /\ (LCleanupLockConfig(Sig) \/ LCleanupLockActive(Sig))
    \/ /\ t \in LockSupIds
       /\ (LSupLockActive(t) \/ LSupLockConfig(t))

LockFairness ==
    /\ Fairness
    /\ SF_vars(MissedLock \/ SaveSnapshot)
    /\ \A t \in LockThreads : WF_vars(LockRuns(t)) /\ SF_vars(LockLocks(t))

LockSpec == InitLock /\ [][NextLock]_vars /\ LockFairness

\* ------------------------------------------------ the Linux shell's shutdown
\* EventLoop::run on the main thread, the interrupt handler on its own
\* thread; the process is gone once run() has returned (loop = "exited")

\* while self.running.load(): the loop test
LoopTest ==
    /\ loop = "test"
    /\ loop' = IF appRunning THEN "events" ELSE "exit"
    /\ UNCHANGED <<appRunning, commands, poisoned, active, sup, tui, sig,
                   stopRuns, mutex>>
    /\ UNCHANGED schedvars
    /\ UNCHANGED envvars

\* MenuAction::ToggleTunnel(key): toggle(key, !is_active), is_active read
\* before the call and stale if the handler's cleanup() ran in between
MenuToggleTunnel(k) ==
    /\ loop = "events"
    /\ k \in commands
    /\ ToggleOn(k) \/ ToggleOff(k)

\* the steps of a toggle that is under way
MenuToggleGoes ==
    /\ loop = "events"
    /\ (\E okk \in BOOLEAN : ToggleOffKill(okk)) \/ ToggleReturn

\* MenuAction::Quit
MenuQuit ==
    /\ loop = "events"
    /\ tui.pc = "idle"
    /\ appRunning
    /\ appRunning' = FALSE
    /\ UNCHANGED <<loop, commands, poisoned, active, sup, tui, sig,
                   stopRuns, mutex>>
    /\ UNCHANGED schedvars
    /\ UNCHANGED envvars

\* the end of one iteration: thread::sleep, back to the loop test
LoopSleep ==
    /\ loop = "events"
    /\ tui.pc = "idle"
    /\ loop' = "test"
    /\ UNCHANGED <<appRunning, commands, poisoned, active, sup, tui, sig,
                   stopRuns, mutex>>
    /\ UNCHANGED schedvars
    /\ UNCHANGED envvars

\* self.app_state.cleanup() after the loop: tunnel_manager.cleanup()
AppCleanupTunnels ==
    /\ loop = "exit"
    /\ tui.op # "cleanup"
    /\ Cleanup

\* self.app_state.cleanup() after the loop: scheduler.stop(); run() returns
AppCleanupStop ==
    /\ loop = "exit"
    /\ tui.pc = "idle" /\ tui.op = "cleanup"
    /\ running' = FALSE
    /\ loop' = "exited"
    /\ UNCHANGED <<appRunning, commands, poisoned, active, sup, tui, sig,
                   stopRuns, mutex>>
    /\ UNCHANGED <<clock, tasks, states, file, lock, phase, ui, poll, hist>>
    /\ UNCHANGED envvars

\* the interrupt handler: tm.cleanup()
HandlerCleanup ==
    /\ loop # "exited"
    /\ SigCleanup

\* the interrupt handler: sched.stop(); running.store(false)
HandlerStop ==
    /\ loop # "exited"
    /\ sig = "done"
    /\ sig' = "stopped"
    /\ running' = FALSE
    /\ appRunning' = FALSE
    /\ UNCHANGED <<loop, commands, poisoned, active, sup, tui, stopRuns,
                   mutex>>
    /\ UNCHANGED <<clock, tasks, states, file, lock, phase, ui, poll, hist>>
    /\ UNCHANGED envvars

\* the supervisor threads run as long as the process does
SupGoes(s) ==
    /\ loop # "exited"
    /\ \/ SupCheck(s)
       \/ \E oks \in BOOLEAN : SupSpawn(s, oks)
       \/ SupChildExits(s)

NextShutdown ==
    \/ LoopTest
    \/ \E k \in TunnelKeys : MenuToggleTunnel(k)
    \/ MenuToggleGoes
    \/ MenuQuit
    \/ LoopSleep
    \/ AppCleanupTunnels
    \/ AppCleanupStop
    \/ HandlerCleanup
    \/ HandlerStop
    \/ \E s \in SupIds : SupGoes(s)

\* one configured tunnel, the scheduler left as constructed
ShutdownSpec == InitOrphan /\ [][NextShutdown]_vars

\* ------------------------------------------- the PATH of a start command
\* the fallback of the supervisor when the configuration does not load
DefaultPath ==
    <<"/bin", "/usr/bin", "/usr/local/bin", "/sbin", "/usr/sbin",
      "/opt/homebrew/bin">>

\* Config::get_path: the configured path, else the PATH of the process, else
\* the empty string
get_path(config, env) ==
    IF config.path.some THEN config.path.val
    ELSE IF env.some THEN env.val ELSE <<"">>

\* config_path in the supervisor: get_path of the loaded configuration, the
\* fallback when loading fails
config_path(cf, env) == IF cf.ok THEN get_path(cf, env) ELSE DefaultPath

\* Command::new: no variable is set on the command itself
CommandNew == [path |-> [found |-> FALSE, value |-> Absent]]

\* cmd.get_envs().find(PATH): the variables set on the command itself, the
\* inherited environment is not among them
get_envs_find_PATH(cmd) == cmd.path

\* new_path: config_path before the PATH found on the command, config_path
\* alone when none is found or the one found has no value
new_path(cmd, cp) ==
    LET e == get_envs_find_PATH(cmd)
    IN  IF e.found /\ e.value.some THEN cp \o e.value.val ELSE cp

\* cmd.env("PATH", v)
cmd_env(cmd, v) == [cmd EXCEPT !.path = [found |-> TRUE, value |-> Present(v)]]

\* the PATH the spawned child sees: the one set on the command, else the
\* inherited one
ChildEnvPath(cmd, env) == IF cmd.path.found THEN cmd.path.value ELSE env

EnvPaths ==
    {Absent, Present(<<"">>), Present(<<"/usr/bin">>),
     Present(<<"/usr/bin", "/bin">>), Present(<<"/home/me/bin">>)}
ConfigFiles ==
    {[ok |-> FALSE, path |-> Absent]}
    \cup {[ok |-> TRUE, path |-> o] :
            o \in {Absent, Present(<<"/opt/bin">>), Present(<<"/usr/bin">>),
                   Present(<<"/opt/bin", "/usr/bin">>)}}

\* one spawn attempt of a supervisor: the command is built and started
SpawnWithPath ==
    /\ LET cmd == CommandNew
           cp == config_path(configFile, environ)
       IN  childPath' = ChildEnvPath(cmd_env(cmd, new_path(cmd, cp)), environ)
    /\ UNCHANGED <<environ, configFile, setBack>>
    /\ UNCHANGED <<schedvars, commands, poisoned, active, sup, tui, sig,
                   stopRuns, mutex, appRunning, loop>>

\* the configuration file is edited between two attempts
ConfigEdited(cf) ==
    /\ configFile # cf
    /\ configFile' = cf
    /\ UNCHANGED <<environ, childPath, setBack>>
    /\ UNCHANGED <<schedvars, commands, poisoned, active, sup, tui, sig,
                   stopRuns, mutex, appRunning, loop>>

InitPath ==
    /\ TunnelManagerNew(TunnelKeys)
    /\ EventLoopNew
    /\ environ \in EnvPaths
    /\ configFile \in ConfigFiles
    /\ childPath = Absent
    /\ setBack = FALSE
    /\ clock = StartTime
    /\ tasks = EmptyMap
    /\ file = NoFile
    /\ states = load_task_states(file)
    /\ running = FALSE
    /\ lock = Free
    /\ phase = "setup"
    /\ ui = UiIdle
    /\ poll = [p \in PollerIds |-> PollNone]
    /\ lastDue = [k \in Keys |-> None]
    /\ ranTwice = {}
    /\ missedRanNow = {}
    /\ executedOk = {}
    /\ lastSnap = states

NextPath ==
    \/ SpawnWithPath
    \/ \E cf \in ConfigFiles : ConfigEdited(cf)

PathSpec == InitPath /\ [][NextPath]_vars

TypeOK ==
    /\ clock \in StartTime..MaxTime
    /\ DOMAIN tasks \subseteq Keys
    /\ running \in BOOLEAN
    /\ lock \in {Free, Ui} \cup DOMAIN poll

\* ------------------------------------------------ vocabulary of the claims
Added == DOMAIN tasks

\* the threads that are inside ScheduledTask::execute
Executing ==
    {t \in {Ui} : ui.pc = "exec"} \cup {p \in PollerIds : poll[p].pc = "exec"}

\* this step is the check_and_run_missed_tasks call deciding to execute k
MissedAttemptBegins(k) ==
    /\ ui.op = "check_missed" /\ ui.pc = "iter"
    /\ ui'.pc = "exec" /\ ui'.key = k

\* this step is the check_and_run_missed_tasks call leaving its loop
MissedLoopEnds ==
    /\ ui.op = "check_missed" /\ ui.pc = "iter"
    /\ ui'.pc \in {"idle", "snap"}

\* this step is poller p deciding to execute k
PollAttemptBegins(p, k) ==
    /\ poll[p].pc = "iter"
    /\ poll'[p].pc = "exec" /\ poll'[p].key = k

\* this step is thread t returning from execute() on key k
ExecuteReturns(t, k) ==
    IF t = Ui
    THEN ui.pc = "exec" /\ ui.key = k /\ ui'.pc # "exec"
    ELSE poll[t].pc = "exec" /\ poll[t].key = k /\ poll'[t].pc # "exec"

\* this step is poller p leaving the for loop of a tick
PollLoopEnds(p) ==
    poll[p].pc = "iter" /\ poll'[p].pc \in {"snap", "sleep"}

\* the poller has finished the for loop of a tick
TickDone(p) == poll[p].pc \in {"snap", "setstates", "write", "sleep"}

\* next_run is defined and has passed at the instant now
PastDue(task, now) == task.next_run # None /\ now >= task.next_run

\* the missed predicate in the words of the specification
MissedAsSpecified(task, now) ==
    /\ task.next_run # None
    /\ now >= task.next_run
    /\ (task.last_run = None \/ task.last_run < task.next_run)

\* the earliest instant strictly after from that the expression matches
EarliestAfter(expr, from, next) ==
    IF next = None
    THEN \A t \in (from + 1)..(from + 1 + SearchLimit) : ~CronMatches(expr, t)
    ELSE /\ next > from
         /\ CronMatches(expr, next)
         /\ \A t \in (from + 1)..(next - 1) : ~CronMatches(expr, t)

\* ---------------------------------------------------------------- claims

\* C1: a due time found at start-up is executed exactly once by the poll
\* loop and the missed-run check together, under every interleaving: no due
\* time is run twice on these paths, the due times a task is run for only
\* grow, and when the poll loop completes a tick no task whose spawn
\* succeeds is still due for the instant that tick read.
C1_ExactlyOnce ==
    /\ [](ranTwice = {})
    /\ [][ \A p \in PollerIds, k \in Added :
             (PollLoopEnds(p) /\ SpawnOk(tasks[k].command))
               => ~PastDue(tasks[k], poll[p].now) ]_vars

\* both paths have completed and the persisted due time Past was run
C1_Witness ==
    /\ phase = "ready" /\ ui.pc = "idle"
    /\ \E p \in PollerIds : TickDone(p)
    /\ \E k \in Added : lastDue[k] = Past

\* C2: a check_and_run_missed_tasks call never executes a task that an
\* earlier call executed successfully when no time has passed since.
C2_SecondCheckRunsNothing ==
    (ui.op = "check_missed" /\ ui.pc = "exec") => ui.key \notin missedRanNow

\* a later call, at the same instant, passes over the task it ran before
C2_Witness ==
    /\ ui.op = "check_missed" /\ ui.pc = "iter" /\ ~ui.any
    /\ \E k \in ui.todo : k \in missedRanNow /\ ui.now = clock

\* C3: check_and_run_missed_tasks attempts a task if and only if next_run is
\* defined, now >= next_run and (last_run is absent or last_run < next_run).
C3_MissedIff ==
    [][ /\ \A k \in Keys :
             MissedAttemptBegins(k) => MissedAsSpecified(tasks[k], ui.now)
        /\ MissedLoopEnds =>
             \A k \in ui.todo : ~MissedAsSpecified(tasks[k], ui.now)
      ]_vars

\* the loop ends having run one task and passed over an overdue task whose
\* last_run is not before its next_run
C3_Witness ==
    /\ ui.op = "check_missed" /\ ui.pc = "iter" /\ ui.any
    /\ \A k \in ui.todo : ~IsMissed(tasks[k], ui.now)
    /\ \E k \in ui.todo :
         /\ tasks[k].next_run # None /\ ui.now >= tasks[k].next_run
         /\ tasks[k].last_run # None /\ tasks[k].last_run >= tasks[k].next_run

\* C4 as stated: after a successful execution the stored fields satisfy
\* last_run >= next_run.
C4_AsStated ==
    \A k \in Added :
        (k \in executedOk /\ tasks[k].next_run # None)
          => tasks[k].last_run >= tasks[k].next_run

\* C4 amended: after a successful execution the stored last_run is before
\* the stored next_run whenever next_run is defined, and the missed
\* predicate is false at the instant of the execution because the task is
\* not overdue.
C4_LastRunBeforeNextRun ==
    \A k \in Added :
        (k \in executedOk /\ tasks[k].next_run # None)
          => /\ tasks[k].last_run # None
             /\ tasks[k].last_run < tasks[k].next_run
             /\ ~IsMissed(tasks[k], tasks[k].last_run)

\* a missed-run check passes over a task that was executed
C4_Witness ==
    /\ ui.op = "check_missed" /\ ui.pc = "iter"
    /\ \E k \in ui.todo :
         /\ k \in executedOk /\ tasks[k].next_run # None
         /\ ~IsMissed(tasks[k], ui.now)

\* C5: every thread inside execute() holds the task-map lock, so at most
\* one execution is in progress.
C5_OneExecutionAtATime ==
    /\ Cardinality(Executing) <= 1
    /\ \A t \in Executing : lock = t
    /\ (ui.pc # "exec" /\ \A p \in PollerIds : poll[p].pc # "exec")
         => Executing = {}

\* a poller executes a task while the UI thread waits for the lock
C5_Witness ==
    /\ \E p \in PollerIds : poll[p].pc = "exec"
    /\ ui.pc = "lock"

\* C6: a failed spawn leaves last_run and next_run as they were, reports no
\* execution to the caller, and a task that was due stays due.
C6_FailedSpawnChangesNothing ==
    [][ \A t \in {Ui} \cup PollerIds, k \in Keys :
          (ExecuteReturns(t, k) /\ ~SpawnOk(tasks[k].command))
            => /\ tasks'[k].last_run = tasks[k].last_run
               /\ tasks'[k].next_run = tasks[k].next_run
               /\ PastDue(tasks[k], clock) => PastDue(tasks'[k], clock')
               /\ IF t = Ui
                  THEN ui'.pc # "snap" /\ ui'.any = ui.any
                  ELSE poll'[t].changed = poll[t].changed
      ]_vars

\* a missed-run check attempted a task whose spawn fails and the task is
\* still missed
C6_Witness ==
    \E k \in Added :
        /\ ui.op = "check_missed" /\ ui.pc = "iter" /\ k \notin ui.todo
        /\ ~SpawnOk(tasks[k].command)
        /\ IsMissed(tasks[k], ui.now)

\* task k's next_run has passed
Due(k) == k \in Added /\ PastDue(tasks[k], clock)

\* some poller is inside execute() for task k
PollAttempting(k) ==
    \E p \in PollerIds : poll[p].pc = "exec" /\ poll[p].key = k

\* C7: while the poll loop runs, a due task whose spawn always fails stays
\* due across every step, no poll tick ends having passed over a due task,
\* and the task is attempted by a poll tick again and again.
C7_FailingTaskRetriedForever ==
    /\ [][ \A k \in Added :
             (phase # "setup" /\ ~SpawnOk(tasks[k].command)
              /\ PastDue(tasks[k], clock))
               => PastDue(tasks'[k], clock') ]_vars
    /\ [][ \A p \in PollerIds :
             PollLoopEnds(p) =>
               \A k \in poll[p].todo : ~PastDue(tasks[k], poll[p].now) ]_vars
    /\ \A k \in Keys :
         (running /\ Due(k) /\ ~SpawnOk(tasks[k].command))
           ~> (PollAttempting(k) \/ ~running)

\* a poll tick has attempted a task whose spawn fails and the task is still
\* due for the next tick
C7_Witness ==
    \E p \in PollerIds, k \in Added :
        /\ poll[p].pc = "iter" /\ k \notin poll[p].todo /\ running
        /\ ~SpawnOk(tasks[k].command)
        /\ PastDue(tasks[k], poll[p].now) /\ Due(k)

\* C8: while the poll loop runs, a task whose spawn succeeds and whose
\* next_run has passed does not stay due for ever: it is executed.
C8_DueTaskEventuallyRuns ==
    \A k \in Keys :
        (running /\ Due(k) /\ SpawnOk(tasks[k].command))
          ~> (~running \/ (k \in executedOk /\ ~Due(k)))

\* a poll tick has executed a task that became due while the loop ran
C8_Witness ==
    \E p \in PollerIds, k \in Added :
        /\ poll[p].pc = "iter" /\ k \notin poll[p].todo
        /\ lastDue[k] = StartTime + 1 /\ tasks[k].last_run >= StartTime + 1
        /\ ui.pc = "idle" /\ ui.op = "none"

\* C9: a successful spawn sets last_run to the present instant and next_run
\* to the earliest occurrence strictly after it; a next_run computed when a
\* task is added is the earliest occurrence strictly after that instant.
C9_NextRunAfterReference ==
    [][ /\ \A t \in {Ui} \cup PollerIds, k \in Keys :
             (ExecuteReturns(t, k) /\ SpawnOk(tasks[k].command))
               => /\ tasks'[k].last_run = clock
                  /\ EarliestAfter(tasks[k].cron, clock, tasks'[k].next_run)
        /\ \A k \in Keys :
             (/\ phase = "setup" /\ k \in DOMAIN tasks'
              /\ (k \notin DOMAIN tasks \/ tasks'[k] # tasks[k])
              /\ ~(k \in DOMAIN states /\ states[k].next_run # None))
               => EarliestAfter(tasks'[k].cron, clock, tasks'[k].next_run)
      ]_vars

\* a task was executed at the present instant and has a later next_run
C9_Witness ==
    \E k \in Added :
        /\ k \in executedOk
        /\ tasks[k].last_run = clock /\ tasks[k].next_run > clock

\* C10: once an execution has left next_run absent, next_run stays absent
\* and neither a poll tick nor a missed-run check attempts the task.
C10_DormantForever ==
    [][ \A k \in Added :
          (k \in executedOk /\ tasks[k].next_run = None)
            => /\ tasks'[k].next_run = None
               /\ ~MissedAttemptBegins(k)
               /\ \A p \in PollerIds : ~PollAttemptBegins(p, k)
      ]_vars

\* a poll tick is passing over a task that an execution left dormant
C10_Witness ==
    \E p \in PollerIds, k \in Added :
        /\ k \in executedOk /\ tasks[k].next_run = None
        /\ tasks[k].last_run # None
        /\ poll[p].pc = "iter" /\ k \in poll[p].todo

\* this step is add_task storing a task under key k
TaskStored(k) ==
    /\ phase = "setup" /\ k \in DOMAIN tasks'
    /\ (k \notin DOMAIN tasks \/ tasks'[k] # tasks[k])

\* C11: a task added with a parsable expression takes the persisted next_run
\* of its key verbatim when there is one, else the earliest occurrence
\* strictly after the present instant; its last_run is the persisted
\* last_run when the key has persisted state, else absent.
C11_AddTaskUsesPersistedState ==
    [][ \A k \in Keys :
          TaskStored(k) =>
            LET t == tasks'[k]
                has == k \in DOMAIN states
            IN /\ CronParses(t.cron)
               /\ IF has /\ states[k].next_run # None
                  THEN t.next_run = states[k].next_run
                  ELSE EarliestAfter(t.cron, clock, t.next_run)
               /\ t.last_run = IF has THEN states[k].last_run ELSE None
      ]_vars

\* one task was added with a persisted next_run in the past and another
\* with no persisted state
C11_Witness ==
    /\ phase = "setup"
    /\ \E k \in Added :
         /\ k \in DOMAIN states /\ states[k].next_run = Past
         /\ tasks[k].next_run = Past /\ tasks[k].last_run = states[k].last_run
    /\ \E k \in Added :
         /\ k \notin DOMAIN states
         /\ tasks[k].next_run > clock /\ tasks[k].last_run = None

\* C12: add_task with an expression that does not parse returns an error and
\* stores nothing: the task map, every task's state and the persisted states
\* are what they were, and every add_task that returns the schedule error
\* changed nothing.
C12_BadCronAddsNothing ==
    [][ /\ \A k \in Keys, c \in TaskConfigs :
             (AddTask(k, c[1], c[2]) /\ c[1] = "bad")
               => /\ ui'.res = "err_schedule"
                  /\ tasks' = tasks /\ states' = states /\ file' = file
                  /\ running' = running /\ poll' = poll
        /\ ui'.res = "err_schedule" => tasks' = tasks
      ]_vars

\* add_task was refused after another task had been added
C12_Witness ==
    /\ ui.res = "err_schedule" /\ ui.pc = "idle"
    /\ \E k \in Keys : k \in Added /\ Keys \ Added # {}

\* this step is run_task_now looking up a key the task map does not hold
RunNowMisses ==
    /\ ui.op = "run_task_now" /\ ui.pc = "lock"
    /\ ui.key \notin DOMAIN tasks /\ ui' # ui

\* C13: run_task_now for a key that is not in the task map returns the
\* not-found error at once, changes no task and saves nothing: neither the
\* states map nor the state file is written.
C13_UnknownKeyChangesNothing ==
    [][ /\ RunNowMisses =>
             /\ ui' = UiReturn("err_not_found")
             /\ tasks' = tasks /\ states' = states /\ file' = file
             /\ lock' = lock /\ executedOk' = executedOk
        /\ (ui'.res = "err_not_found" /\ ui.res # "err_not_found")
             => RunNowMisses
      ]_vars

\* run_task_now has returned not-found for a key while another task exists
C13_Witness ==
    /\ ui.res = "err_not_found" /\ ui.pc = "idle"
    /\ Added # {} /\ Keys \ Added # {}

\* this step is run_task_now finding its key in the task map
RunNowFinds ==
    /\ ui.op = "run_task_now" /\ ui.pc = "lock"
    /\ ui.key \in DOMAIN tasks /\ ui' # ui

\* this step is run_task_now returning Ok
RunNowReturnsOk == ui.op = "run_task_now" /\ ui'.res = "ok" /\ ui' # ui

\* C14: run_task_now for an existing key executes the task whether or not
\* it is due; it returns Ok only from the write of a snapshot that was taken
\* after the execution and holds every task, and the file then reads back
\* as that snapshot; a failed spawn returns the error and writes nothing.
C14_RunNowExecutesAndSaves ==
    [][ /\ RunNowFinds => ui'.pc = "exec" /\ ui'.key = ui.key
        /\ \A k \in Keys :
             (ExecuteReturns(Ui, k) /\ ui.op = "run_task_now")
               => IF SpawnOk(tasks[k].command)
                  THEN /\ tasks'[k].last_run = clock
                       /\ ui'.pc = "snap" /\ ui'.res = "none"
                       /\ file' = file
                  ELSE /\ ui' = UiReturn("err_spawn")
                       /\ tasks' = tasks /\ states' = states /\ file' = file
        /\ RunNowReturnsOk =>
             /\ ui.pc = "write"
             /\ DOMAIN ui.snap = DOMAIN tasks
             /\ ui.snap[ui.key].last_run # None
             /\ file'.exists /\ load_task_states(file') = ui.snap
      ]_vars

\* run_task_now is writing the snapshot after it ran a task that has no
\* persisted state and is not due before the clock advances
C14_Witness ==
    /\ ui.op = "run_task_now" /\ ui.pc = "write"
    /\ ui.key \notin PersistedKeys /\ clock = StartTime
    /\ tasks[ui.key].last_run = StartTime
    /\ tasks[ui.key].next_run > clock
    /\ ui.snap = Snapshot(tasks)

\* the poll-loop threads that were spawned and have not returned
AliveLoops == {p \in DOMAIN poll : poll[p].pc \notin {"none", "exited"}}

\* C15: start() called while the running flag is set spawns no thread,
\* changes no poll-loop thread and leaves the flag set.
C15_StartIsIdempotent ==
    [][ /\ (Restart /\ running) => (poll' = poll /\ running')
        /\ (ui'.res = "already_running" /\ ui' # ui)
             => (running /\ running' /\ poll' = poll /\ tasks' = tasks)
      ]_vars

\* start() has returned from its already-running branch with one loop alive
C15_Witness ==
    /\ ui.res = "already_running" /\ ui.pc = "idle"
    /\ running /\ Cardinality(AliveLoops) = 1
    /\ \E p \in DOMAIN poll : poll[p].pc = "none"

\* C16 as stated: after any sequence of start() and stop() calls at most one
\* poll-loop thread is alive.
C16_AtMostOneLoop == Cardinality(AliveLoops) <= 1

\* C17: once the running flag is cleared and start() is not called again,
\* every poll-loop thread returns; a thread returns only when it reads the
\* flag cleared, and while no loop is alive no task is executed by polling
\* and no thread comes to life unless start() sets the flag.
C17_StoppedLoopExits ==
    /\ \A p \in PollerIds :
         (~running /\ poll[p].pc # "none")
           ~> (running \/ poll[p].pc = "exited")
    /\ [][ \A p \in PollerIds :
             /\ (poll[p].pc # "exited" /\ poll'[p].pc = "exited")
                  => (~running /\ poll[p].pc = "loop")
             /\ AliveLoops = {} =>
                  /\ \A k \in Keys : ~PollAttemptBegins(p, k)
                  /\ \A k \in Keys : ~ExecuteReturns(p, k)
                  /\ AliveLoops' # {} => (~running /\ running')
          ]_vars

\* a task was run, the scheduler was stopped and the loop has returned
C17_Witness ==
    /\ ~running /\ phase = "ready"
    /\ \E p \in PollerIds : poll[p].pc = "exited"
    /\ AliveLoops = {}
    /\ \E k \in Added : k \in executedOk /\ lastDue[k] # None

\* the map holds last_run and next_run of every task of the task map
FullSnapshotOf(snap, taskmap) ==
    /\ DOMAIN snap = DOMAIN taskmap
    /\ \A k \in DOMAIN taskmap :
         /\ snap[k].last_run = taskmap[k].last_run
         /\ snap[k].next_run = taskmap[k].next_run

\* C18: a poll tick goes on to save exactly when an execution of the tick
\* succeeded; the snapshot is taken after the loop and holds every task; the
\* file is written by the poll thread only from that snapshot, with the lock
\* of the tick released, and then holds an entry for every task.
C18_TickSavesIffExecuted ==
    [][ \A p \in PollerIds :
          /\ (poll[p].pc = "lock" /\ poll'[p].pc = "iter") => ~poll'[p].changed
          /\ \A k \in Keys :
               ExecuteReturns(p, k) =>
                 poll'[p].changed = (poll[p].changed \/ SpawnOk(tasks[k].command))
          /\ PollLoopEnds(p) =>
               /\ (poll'[p].pc = "snap") = poll[p].changed
               /\ lock = p /\ lock' = Free /\ file' = file
          /\ (poll[p].pc # "snap" /\ poll'[p].pc = "snap") => PollLoopEnds(p)
          /\ (poll[p].pc = "snap" /\ poll'[p].pc # "snap")
               => (poll'[p].pc = "setstates"
                   /\ FullSnapshotOf(poll'[p].snap, tasks))
          /\ (poll[p].pc # "write" /\ poll'[p].pc = "write")
               => (poll[p].pc = "setstates" /\ poll'[p].snap = poll[p].snap)
          /\ (poll' # poll /\ file' # file) => poll[p].pc = "write"
          /\ (poll[p].pc = "write" /\ poll'[p].pc # "write")
               => /\ lock # p
                  /\ file'.exists /\ load_task_states(file') = poll[p].snap
                  /\ DOMAIN load_task_states(file') = DOMAIN tasks
                  /\ poll'[p].pc = "sleep"
      ]_vars

\* a tick that ran one of two tasks is about to write both entries with the
\* task-map lock released
C18_Witness ==
    \E p \in PollerIds :
        /\ poll[p].pc = "write" /\ lock # p
        /\ Cardinality(DOMAIN poll[p].snap) = Cardinality(Keys)
        /\ \E k \in Added : ~SpawnOk(tasks[k].command)
        /\ \E k \in Added : poll[p].snap[k].last_run = clock

\* some thread is between the start of a save and its write of the file
SaveInProgress ==
    \/ ui.pc \in {"snap", "setstates", "write"}
    \/ \E p \in DOMAIN poll : poll[p].pc \in {"snap", "setstates", "write"}

\* C19 as stated: whenever no save is in progress the state file holds the
\* snapshot most recently taken, so an older snapshot never replaces a
\* newer one on disk.
C19_FileIsLastSnapshot ==
    ~SaveInProgress => load_task_states(file) = lastSnap

\* loading file f yields the keys of snap with the same last_run and next_run
LoadsAs(f, snap) ==
    /\ f.exists
    /\ LET m == load_task_states(f)
       IN /\ DOMAIN m = DOMAIN snap
          /\ \A k \in DOMAIN snap :
               /\ m[k].last_run = snap[k].last_run
               /\ m[k].next_run = snap[k].next_run

Unusable(f) == ~f.exists \/ ~f.readable \/ ~f.parses

\* C21: a state file that is missing, unreadable or unparsable loads as the
\* empty map, and a save whose write fails returns normally and leaves the
\* tasks, the in-memory states map and the threads of the scheduler as they
\* were.
C21_PersistenceFailureIsNotFatal ==
    /\ [](phase = "setup" =>
            /\ Unusable(file) => states = EmptyMap
            /\ ~Unusable(file) => LoadsAs(file, states))
    /\ [][ /\ (ui.pc = "write" /\ ui'.pc # "write"
             /\ ~LoadsAs(file', ui.snap))
              => /\ tasks' = tasks /\ states' = states
                 /\ running' = running /\ poll' = poll /\ lock' = lock
                 /\ ui'.pc = "idle" /\ ui'.res \in {"none", "ok"}
        /\ \A p \in PollerIds :
             (poll[p].pc = "write" /\ poll'[p].pc # "write"
              /\ ~LoadsAs(file', poll[p].snap))
               => /\ tasks' = tasks /\ states' = states
                  /\ running' = running /\ ui' = ui /\ lock' = lock
                  /\ poll'[p].pc = "sleep"
      ]_vars

\* no write has ever succeeded, and the scheduler has executed a task and
\* holds its new state in memory
C21_Witness ==
    /\ phase = "ready" /\ ~file.exists /\ ~SaveInProgress
    /\ \E k \in Added :
         /\ k \in executedOk /\ tasks[k].last_run # None
         /\ k \in DOMAIN states /\ states[k].last_run = tasks[k].last_run
    /\ \E p \in PollerIds : poll[p].pc = "sleep"

\* ------------------------------------- vocabulary of the tunnel claims
\* supervisor thread s is running its loop
SupAlive(s) == sup[s].pc \in {"check", "spawn", "wait"}

\* this step is supervisor s leaving its loop and ending
SupEnds(s) == SupAlive(s) /\ sup'[s].pc = "done"

\* this step is the UI thread entering toggle(k, false)
TogglesOff(k) ==
    /\ tui.pc = "idle" /\ tui'.pc = "kill"
    /\ tui'.op = "toggle_off" /\ tui'.key = k

\* this step is the UI thread entering toggle(k, true)
TogglesOn(k) ==
    /\ tui.pc = "idle" /\ tui'.pc = "ret"
    /\ tui'.op = "toggle_on" /\ tui'.key = k

\* this step is toggle returning to the UI thread
ToggleReturns == tui.pc = "ret" /\ tui'.pc = "idle"

\* this step is a whole cleanup() call, on the UI thread or on the interrupt
\* handler's thread
UiCleans ==
    /\ tui.pc = "idle" /\ tui'.pc = "idle" /\ tui'.op = "cleanup"
    /\ tui' # tui
SigCleans == sig = "idle" /\ sig' = "done"

\* C22: a supervisor thread makes at most 5 spawn attempts, failed spawns and
\* exited children both counted, and once it has made the fifth it only ends.
C22_AtMostFiveAttempts ==
    /\ [](\A s \in SupIds : sup[s].spawns <= 5)
    /\ [][ \A s \in SupIds :
             (sup[s].pc = "check" /\ sup[s].spawns = 5
              /\ sup'[s].pc # sup[s].pc) => sup'[s].pc = "done" ]_vars

\* a supervisor has ended after five attempts
C22_Witness ==
    \E s \in SupIds : sup[s].pc = "done" /\ sup[s].spawns = 5

\* C23: a supervisor that ends while its key is active has used up its 5
\* attempts and leaves the active set as it is, so has_active_tunnels() is
\* still true; a key leaves the active set only in a step of toggle(key,
\* false) or of cleanup().
C23_ExhaustedKeyStaysActive ==
    [][ /\ \A s \in SupIds :
             SupEnds(s) =>
               /\ active' = active
               /\ sup[s].key \in active =>
                    /\ sup[s].attempts = 5
                    /\ sup[s].key \in active' /\ active' # {}
        /\ \A k \in TunnelKeys :
             (k \in active /\ k \notin active') =>
               TogglesOff(k) \/ UiCleans \/ SigCleans
      ]_vars

\* a key is active, its only supervisor has ended on the cap, and a later
\* toggle of the other key has returned true
C23_Witness ==
    \E s \in SupIds :
       /\ sup[s].pc = "done" /\ sup[s].attempts = 5
       /\ sup[s].key \in active
       /\ \A t \in SupIds \ {s} : ~SupAlive(t)
       /\ tui.pc = "idle" /\ tui.op = "toggle_off" /\ tui.key # sup[s].key
       /\ tui.ret = "true" /\ active = {sup[s].key}

\* C24: toggle(key, false) on an active key removes the key, runs the key's
\* stop command once and no other before it returns, returns whether the
\* stop command succeeded or failed, and returns true exactly when another
\* key is still in the set.
C24_ToggleOffStopsOnce ==
    [][ /\ \A k \in TunnelKeys :
             (TogglesOff(k) /\ k \in active) =>
               /\ active' = active \ {k}
               /\ tui'.was
        /\ (tui.pc = "kill" /\ tui.was /\ tui' # tui) =>
               /\ tui'.pc = "ret" /\ tui'.killed \in {"ok", "failed"}
               /\ stopRuns' = [k \in TunnelKeys |->
                                 IF k = tui.key THEN 1 ELSE 0]
        /\ (ToggleReturns /\ tui.op = "toggle_off" /\ tui.was) =>
               /\ stopRuns[tui.key] = 1
               /\ tui.key \notin active
               /\ tui'.ret = "true" <=> active \ {tui.key} # {}
               /\ tui'.ret \in {"true", "false"}
      ]_vars

\* toggle(key, false) on an active key has returned true after its stop
\* command failed
C24_Witness ==
    /\ tui.pc = "idle" /\ tui.op = "toggle_off" /\ tui.was
    /\ tui.killed = "failed" /\ tui.ret = "true"
    /\ tui.key \notin active /\ active # {}
    /\ stopRuns[tui.key] = 1

\* C25 as stated: toggle returns true iff the active set is non-empty once
\* the toggle's own insertion or removal has been applied, so enabling always
\* returns true and disabling returns true exactly when another key remains.
C25_AsStated ==
    [][ ToggleReturns =>
          /\ tui'.ret = "true" <=> tui.after # {}
          /\ tui.op = "toggle_on" => tui'.ret = "true"
      ]_vars

\* C25: toggle returns true iff the active set is non-empty at the moment of
\* its return; that is the set left by its own insertion or removal unless a
\* cleanup() on the interrupt handler's thread has emptied the set since, and
\* then toggle returns false, enabling included.
C25_ReturnsSetAtReturn ==
    [][ ToggleReturns =>
          /\ tui'.ret = "true" <=> active # {}
          /\ tui'.ret \in {"true", "false"}
          /\ active = tui.after =>
               /\ tui.op = "toggle_on" => tui'.ret = "true"
               /\ tui.op = "toggle_off" =>
                    (tui'.ret = "true" <=> active \ {tui.key} # {})
          /\ active # tui.after =>
               sig = "done" /\ active = {} /\ tui'.ret = "false"
      ]_vars

\* toggle(key, true) has returned false
C25_Witness ==
    /\ tui.pc = "idle" /\ tui.op = "toggle_on" /\ tui.ret = "false"
    /\ tui.key \in tui.after /\ active = {}

\* C26: cleanup() runs the stop command once for every key that is in the
\* active set when it runs and for no other key, and leaves the set empty; a
\* cleanup() that follows a cleanup() with no toggle in between, on the UI
\* thread or on the interrupt handler's, runs no stop command and leaves the
\* set empty.
C26_CleanupIsIdempotent ==
    [][ /\ UiCleans =>
             /\ stopRuns' = [k \in TunnelKeys |->
                               IF k \in active THEN 1 ELSE 0]
             /\ active' = {}
        /\ (UiCleans /\ (tui.op = "cleanup" \/ sig = "done")) =>
             /\ active = {}
             /\ \A k \in TunnelKeys : stopRuns'[k] = 0
        /\ SigCleans => active' = {}
      ]_vars

\* a second cleanup() in a row has returned while a supervisor thread of an
\* earlier toggle is still running
C26_Witness ==
    /\ tui.pc = "idle" /\ tui.op = "cleanup" /\ tui.was
    /\ active = {} /\ \A k \in TunnelKeys : stopRuns[k] = 0
    /\ \E s \in SupIds : SupAlive(s)

\* the live supervisor threads of key k
SupervisorsOf(k) == {s \in SupIds : SupAlive(s) /\ sup[s].key = k}

\* C27: every key in the active set has at most one live supervisor thread,
\* hence at most one start command being spawned or waited on.
C27_OneSupervisorPerKey ==
    \A k \in active : Cardinality(SupervisorsOf(k)) <= 1

\* C28: a key without a registry entry makes no call for another key fail:
\* no cleanup() panics, on either thread, no toggle of a registered key
\* panics, and no supervisor of a registered key panics.
C28_FailuresAreConfined ==
    /\ sig # "panicked"
    /\ tui.pc = "panicked" =>
         (tui.op = "toggle_off" /\ tui.key \notin commands)
    /\ \A s \in SupIds : sup[s].pc = "panicked" => sup[s].key \notin commands

\* C29: a supervisor ends before its fifth attempt only at its loop test and
\* only when its key is absent; every attempt follows a loop test that found
\* the key present, and a test that finds it absent is followed by no
\* attempt; a supervisor waiting for its child leaves the wait only when the
\* child exits, whatever has happened to the key, and then tests again.
C29_RemovalStopsAtNextCheck ==
    [][ \A s \in SupIds :
          /\ (SupEnds(s) /\ sup[s].attempts < 5) =>
               sup[s].pc = "check" /\ sup[s].key \notin active
          /\ (sup[s].pc = "check" /\ sup[s].key \notin active
              /\ sup'[s].pc # "check") => sup'[s].pc = "done"
          /\ (SupAlive(s) /\ sup[s].pc # "spawn" /\ sup'[s].pc = "spawn") =>
               sup[s].pc = "check" /\ sup[s].key \in active
          /\ sup'[s].spawns = sup[s].spawns + 1 => sup[s].pc = "spawn"
          /\ (sup[s].pc = "wait" /\ sup'[s].pc # "wait") =>
               /\ sup'[s].pc = "check"
               /\ sup'[s].attempts = sup[s].attempts + 1
               /\ active' = active
          /\ (sup[s].pc = "wait" /\ active' # active) => sup'[s].pc = "wait"
      ]_vars

\* a supervisor that has spawned at least once has ended before the cap,
\* its key having been removed
C29_Witness ==
    \E s \in SupIds :
       /\ sup[s].pc = "done" /\ sup[s].attempts < 5 /\ sup[s].spawns >= 1
       /\ sup[s].key \notin active
       /\ tui.pc = "idle" /\ tui.op = "toggle_off" /\ tui.key = sup[s].key

\* C30: a supervisor spawns at most one start command while its key is
\* absent from the active set, counted since the key was last enabled.
C30_AtMostOneLateSpawn ==
    /\ \A s \in SupIds : sup[s].late <= 1
    /\ \A s \in SupIds :
         (sup[s].late = 1 /\ sup[s].pc = "spawn") => sup[s].key \in active

\* toggle(key, false) has returned, and a supervisor of the key that had
\* passed its loop test has since spawned once more and ended
C30_Witness ==
    \E s \in SupIds :
       /\ sup[s].pc = "done" /\ sup[s].late = 1
       /\ sup[s].key \notin active
       /\ tui.pc = "idle" /\ tui.op = "toggle_off" /\ tui.key = sup[s].key
       /\ tui.was

\* ---------------------------------------- vocabulary of the lock claims
\* thread t stands at a lock() call on mutex m
Waits(t, m) ==
    LET pc == IF t = Ui THEN tui.pc ELSE IF t = Sig THEN sig ELSE sup[t].pc
    IN  IF m = "active_tunnels"
        THEN pc \in {"lock_active", "lock_active_ret", "c_lock_active"}
        ELSE pc \in {"lock_config", "c_lock_config"}

\* two threads each hold the mutex the other one waits for
WaitCycle ==
    \E t, u \in LockThreads, m, n \in Mutexes :
       /\ t # u /\ m # n
       /\ mutex[m] = t /\ Waits(t, n)
       /\ mutex[n] = u /\ Waits(u, m)

\* thread t stands at a lock() call
WaitsAny(t) == \E m \in Mutexes : Waits(t, m)

\* C31: no thread waits for a mutex it holds, no two threads wait for each
\* other, a thread leaves a lock() call only as the holder of the mutex, and
\* every thread that stands at a lock() call of toggle, cleanup,
\* has_active_tunnels, a supervisor, the poll loop or the missed-run check
\* leaves it in the end, the external commands terminating.
C31_NoDeadlock ==
    /\ [](~WaitCycle)
    /\ [](\A t \in LockThreads, m \in Mutexes : Waits(t, m) => mutex[m] # t)
    /\ [][ \A t \in LockThreads, m \in Mutexes :
             (Waits(t, m) /\ ~Waits(t, m)') => mutex'[m] = t ]_vars
    /\ \A t \in LockThreads : WaitsAny(t) ~> ~WaitsAny(t)
    /\ \A p \in PollerIds : poll[p].pc = "lock" ~> lock = p
    /\ (ui.pc = "lock") ~> (lock = Ui)

\* the handler's cleanup() holds commands_config and waits for
\* active_tunnels, which a supervisor in its second attempt or later holds,
\* while toggle on the UI thread waits for commands_config and the poll loop
\* holds the task map
C31_Witness ==
    /\ sig = "c_lock_active" /\ mutex["commands_config"] = Sig
    /\ \E s \in LockSupIds :
         mutex["active_tunnels"] = s /\ sup[s].attempts >= 1
    /\ tui.pc = "lock_config"
    /\ \E p \in PollerIds : lock = p

\* ------------------------------------------------------------- shutdown
\* cleanup() was called on the main thread at the loop's exit
MainCalledCleanup == tui.op = "cleanup"
\* cleanup() was called on the interrupt handler's thread
HandlerCalledCleanup == sig # "idle"
ProcessExited == loop = "exited"

\* C32: when the process has exited, by Quit or by an interrupt signal,
\* cleanup() has been invoked exactly once.
C32_CleanupExactlyOnce ==
    ProcessExited =>
       /\ MainCalledCleanup \/ HandlerCalledCleanup
       /\ ~(MainCalledCleanup /\ HandlerCalledCleanup)

\* ------------------------------------------------------ the child's PATH
\* a start command is spawned with a PATH other than the last one's
StartsCommand == childPath' # childPath

\* C33: the PATH given to the start command is the configured path followed
\* by the PATH of the environment when the environment has one, and the
\* configured path alone when it has none.
C33_PathIsMerged ==
    [][ StartsCommand =>
          childPath' = Present(IF environ.some
                               THEN config_path(configFile, environ)
                                       \o environ.val
                               ELSE config_path(configFile, environ))
      ]_vars

\* ------------------------------------------------- failures within a pass
\* C34: in a poll tick and in a missed-run check the loop starts over the
\* whole map; a spawn failure takes only the failed task off the tasks still
\* to visit and the loop goes on; the loop ends only when no task still to
\* visit is due (missed), and the pass goes on to save when an execution of
\* it succeeded, whatever failed.
C34_FailureDoesNotStopThePass ==
    [][ /\ \A p \in PollerIds :
             /\ (poll[p].pc = "lock" /\ poll'[p].pc = "iter")
                  => poll'[p].todo = DOMAIN tasks
             /\ \A k \in Keys :
                  (ExecuteReturns(p, k) /\ ~SpawnOk(tasks[k].command))
                    => /\ poll'[p].pc = "iter" /\ lock' = p
                       /\ poll'[p].todo = poll[p].todo \ {k}
                       /\ poll'[p].changed = poll[p].changed
             /\ PollLoopEnds(p) =>
                  /\ \A k \in poll[p].todo : ~PastDue(tasks[k], poll[p].now)
                  /\ poll[p].changed => poll'[p].pc = "snap"
        /\ (ui.op = "check_missed" /\ ui.pc = "lock" /\ ui'.pc = "iter")
             => ui'.todo = DOMAIN tasks
        /\ \A k \in Keys :
             (ui.op = "check_missed" /\ ExecuteReturns(Ui, k)
              /\ ~SpawnOk(tasks[k].command))
               => /\ ui'.pc = "iter" /\ ui'.op = "check_missed" /\ lock' = Ui
                  /\ ui'.todo = ui.todo \ {k}
                  /\ ui'.any = ui.any
        /\ MissedLoopEnds =>
             /\ \A k \in ui.todo : ~MissedAsSpecified(tasks[k], ui.now)
             /\ ui.any => ui'.pc = "snap"
      ]_vars

\* a poll tick has attempted both tasks of the map: the one whose spawn
\* fails is still due, the other one ran, and the tick will save
C34_Witness ==
    \E p \in PollerIds : \E k1, k2 \in Added :
        /\ poll[p].pc = "iter" /\ poll[p].todo = {} /\ poll[p].changed
        /\ k1 # k2
        /\ ~SpawnOk(tasks[k1].command) /\ PastDue(tasks[k1], poll[p].now)
        /\ SpawnOk(tasks[k2].command) /\ tasks[k2].last_run # None
        /\ tasks[k2].last_run >= poll[p].now

\* ------------------------------------------------ missed and due predicates
\* the instants a caller can pass as now
Instants == 0..(MaxTime + 1)

\* C35 as stated: when every state file read was written by the scheduler,
\* the missed predicate and the due predicate agree on every task at every
\* instant.
C35_AsStated ==
    \A k \in Added : \A now \in Instants :
       MissedAsSpecified(tasks[k], now) <=> PastDue(tasks[k], now)

\* C35: when every state file read was written by the scheduler and the
\* clock has never been set back, the missed predicate and the due predicate
\* agree on every task at every instant: a task with a next_run has never
\* run or ran before that next_run.
C35_MissedIsDue ==
    ~setBack => \A k \in Added :
       /\ \A now \in Instants :
            MissedAsSpecified(tasks[k], now) <=> PastDue(tasks[k], now)
       /\ tasks[k].next_run # None =>
            (tasks[k].last_run = None
             \/ tasks[k].last_run < tasks[k].next_run)

\* a task restored from the state file of the process that ended, with the
\* last run that process made, is due and is missed
C35_Witness ==
    \E k \in Added :
       /\ ~setBack
       /\ k \notin executedOk /\ tasks[k].last_run # None
       /\ file.exists /\ k \in DOMAIN load_task_states(file)
       /\ PastDue(tasks[k], clock) /\ MissedAsSpecified(tasks[k], clock)

\* ------------------------------------------------- next_run over time
\* this step is a successful execution of k on the poll or the missed path
RunsOnSchedule(k) ==
    /\ SpawnOk(tasks[k].command)
    /\ \/ \E p \in PollerIds : ExecuteReturns(p, k)
       \/ ui.op = "check_missed" /\ ExecuteReturns(Ui, k)

\* this step is a successful run_task_now of k
RunsManually(k) ==
    /\ SpawnOk(tasks[k].command)
    /\ ui.op = "run_task_now" /\ ExecuteReturns(Ui, k)

\* C36: the clock is never set back, and with the task's cron expression
\* unchanged, no step lowers a task's next_run; a successful execution on
\* the poll or missed path leaves it later than it was, or absent; a
\* successful run_task_now before the due time leaves it as it was.
C36_NextRunNeverDecreases ==
    [][ /\ clock' >= clock
        /\ \A k \in Added :
             (k \in DOMAIN tasks' /\ tasks'[k].cron = tasks[k].cron) =>
               /\ (tasks[k].next_run # None /\ tasks'[k].next_run # None)
                    => tasks'[k].next_run >= tasks[k].next_run
               /\ RunsOnSchedule(k) =>
                    /\ tasks[k].next_run # None
                    /\ tasks'[k].next_run # None
                         => tasks'[k].next_run > tasks[k].next_run
               /\ (RunsManually(k) /\ tasks[k].next_run # None
                   /\ clock < tasks[k].next_run)
                    => tasks'[k].next_run = tasks[k].next_run
      ]_vars

\* the poll loop executes, at its due time, a task that run_task_now ran
\* before that due time
C36_Witness ==
    \E p \in PollerIds : \E k \in Added :
       /\ poll[p].pc = "exec" /\ poll[p].key = k
       /\ k \in executedOk /\ lastDue[k] = None
       /\ tasks[k].last_run # None /\ tasks[k].last_run < tasks[k].next_run
       /\ clock = tasks[k].next_run

\* ------------------------------------------------- keys of a completed save
\* this step completes a save: the file has been written
SaveCompletes ==
    \/ ui.pc = "write" /\ ui'.pc # "write"
    \/ \E p \in PollerIds : poll[p].pc = "write" /\ poll'[p].pc # "write"

\* the keys the state file holds
FileKeys(f) == DOMAIN load_task_states(f)

\* C37: when a save completes, the in-memory states map and the state file
\* hold exactly the keys of the task map; an entry of a key that is not in
\* the task map is gone from both.
C37_SaveKeepsTaskKeysOnly ==
    [][ SaveCompletes =>
          /\ DOMAIN states' = DOMAIN tasks'
          /\ file'.exists /\ FileKeys(file') = DOMAIN tasks'
          /\ \A k \in Keys \ DOMAIN tasks' :
                k \notin DOMAIN states' /\ k \notin FileKeys(file')
      ]_vars

\* a save is about to write the file: the file of the earlier run still has
\* an entry for a key that is not in the task map, the states map has
\* already lost it
C37_Witness ==
    /\ ui.pc = "write"
    /\ \E k \in Keys :
         /\ k \in FileKeys(file) /\ k \notin DOMAIN tasks
         /\ k \notin DOMAIN states /\ k \notin DOMAIN ui.snap
    /\ DOMAIN tasks # {} /\ DOMAIN states = DOMAIN tasks

\* ------------------------------------------- disabling an inactive tunnel
\* C38: toggle(key, false) for a registered key that is not in the active
\* set leaves the active set as it is, and runs that key's stop command,
\* once and no other, before it returns.
C38_ToggleOffInactiveStillStops ==
    [][ /\ \A k \in commands :
             (TogglesOff(k) /\ k \notin active) =>
               /\ active' = active
               /\ ~tui'.was /\ tui'.pc = "kill"
        /\ (tui.pc \in {"kill", "ret"} /\ tui.op = "toggle_off" /\ ~tui.was
            /\ tui.key \in commands /\ tui' # tui) => active' = active
        /\ (tui.pc = "kill" /\ ~tui.was /\ tui.key \in commands
            /\ ~poisoned /\ tui' # tui) =>
               /\ tui'.pc = "ret" /\ tui'.killed \in {"ok", "failed"}
               /\ \A k \in TunnelKeys :
                    stopRuns'[k] = IF k = tui.key THEN 1 ELSE 0
        /\ (ToggleReturns /\ tui.op = "toggle_off" /\ ~tui.was
            /\ tui.key \in commands) =>
               /\ stopRuns[tui.key] = 1
               /\ \A k \in TunnelKeys \ {tui.key} : stopRuns[k] = 0
      ]_vars

\* toggle(key, false) has returned for a key that was not active while the
\* other key is active: the set is as it was and the stop command has run
C38_Witness ==
    /\ tui.pc = "idle" /\ tui.op = "toggle_off" /\ ~tui.was
    /\ tui.key \in commands /\ stopRuns[tui.key] = 1
    /\ active = tui.after /\ active # {} /\ tui.key \notin active
    /\ tui.ret = "true"

\* ------------------------------------------------ who changes the active set
\* this step is taken by a supervisor thread alone
SupervisorSteps ==
    /\ sup' # sup /\ tui' = tui /\ sig' = sig

\* C39: a toggle of key k leaves every other key's membership in the active
\* set as it was; a step of a supervisor thread leaves the whole set as it
\* was; the set changes only in a step of toggle or of cleanup().
C39_OnlyToggleAndCleanupChangeActive ==
    [][ /\ \A k \in TunnelKeys :
             (TogglesOn(k) \/ TogglesOff(k)) =>
               \A j \in TunnelKeys \ {k} : (j \in active') <=> (j \in active)
        /\ SupervisorSteps => active' = active
        /\ active' # active =>
             \/ \E k \in TunnelKeys :
                  /\ TogglesOn(k) \/ TogglesOff(k)
                  /\ active' \in {active \cup {k}, active \ {k}}
             \/ (UiCleans \/ SigCleans) /\ active' = {}
      ]_vars

\* one key is toggled on while the other is active and has a supervisor
\* that has ended on the retry cap: both are in the set
C39_Witness ==
    /\ tui.pc = "ret" /\ tui.op = "toggle_on"
    /\ active = TunnelKeys /\ ~tui.was
    /\ \E s \in SupIds :
         /\ sup[s].pc = "done" /\ sup[s].attempts = MaxAttempts
         /\ sup[s].key # tui.key

\* --------------------------------------------------- keys of the task map
\* this step changes the task map while the shell adds the schedules
AddTaskChangesMap == phase = "setup" /\ tasks' # tasks

\* C40: no step takes a key out of the task map; a step of add_task changes
\* the task of one key only, and that key is in the map afterwards: as a new
\* key when it was not there, in the place of the old task when it was, the
\* number of keys then staying as it was; no step after the schedules were
\* added changes the keys.
C40_TaskKeysNeverShrink ==
    [][ /\ Added \subseteq DOMAIN tasks'
        /\ AddTaskChangesMap =>
             \E k \in Keys :
                /\ DOMAIN tasks' = Added \cup {k}
                /\ \A j \in Added \ {k} : tasks'[j] = tasks[j]
                /\ k \in Added =>
                     /\ Cardinality(DOMAIN tasks') = Cardinality(Added)
                     /\ tasks'[k] # tasks[k]
        /\ phase # "setup" => DOMAIN tasks' = Added
      ]_vars

\* both keys are in the task map and add_task can still be called for
\* either of them with another schedule
C40_Witness ==
    /\ phase = "setup" /\ ui.pc = "idle" /\ ui.res = "ok"
    /\ Added = Keys
    /\ \E k \in Added : tasks[k].cron = "once"
    /\ \E k \in Added : tasks[k].cron = "every"

====
